---- MODULE Spec2Model ----
(***************************************************************************)
(* A model of the document template engine of backend/: section inference, *)
(* table summarising, schema building, field application and placeholder   *)
(* substitution (document_processing.py), and the metadata cache around    *)
(* them (services.py, metadata_store.py, api/docx.py).                     *)
(*                                                                         *)
(* Text is a sequence of one-character strings, so that the regular        *)
(* expressions of the code are computed character by character.            *)
(***************************************************************************)
EXTENDS Integers, Sequences, FiniteSets, TLC

\* ------------------------------------------------------------- the state
\* One template id: its stored document, its metadata file, the last request.

VARIABLES
  template,   \* the document stored under the template id, NoDoc when none
  metaStore,  \* the metadata file of the template id, NoMetadata when none
  analyses,   \* how many times analyze_template has run on the stored document
  request,    \* the payload of the last generate request, or the value last applied
  output,     \* the document the last generate request produced
  applied,    \* the names of the structured fields that request applied, in order
  response,   \* how the last request ended: "none", "ok", "error", "not_found"
  inflight    \* the generate requests served step by step, each with what it holds

vars == <<template, metaStore, analyses, request, output, applied, response, inflight>>

\* ------------------------------------------------------------------ text

Digits == {"0", "1", "2", "3", "4", "5", "6", "7", "8", "9"}
UpperSeq == <<"A", "B", "C", "D", "E", "F", "G", "H", "I", "J", "K", "L", "M",
              "N", "O", "P", "Q", "R", "S", "T", "U", "V", "W", "X", "Y", "Z">>
LowerSeq == <<"a", "b", "c", "d", "e", "f", "g", "h", "i", "j", "k", "l", "m",
              "n", "o", "p", "q", "r", "s", "t", "u", "v", "w", "x", "y", "z">>
Uppers == {UpperSeq[i] : i \in DOMAIN UpperSeq}
Lowers == {LowerSeq[i] : i \in DOMAIN LowerSeq}
\* \s of the re module, as far as the modelled texts go
Spaces == {" ", "\n", "\t", "\r"}

IsDigit(c) == c \in Digits
IsAlpha(c) == c \in Uppers \cup Lowers
IsAlnum(c) == IsAlpha(c) \/ IsDigit(c)
IsSpace(c) == c \in Spaces
ToLower(c) ==
  IF c \in Uppers THEN LowerSeq[CHOOSE i \in DOMAIN UpperSeq : UpperSeq[i] = c] ELSE c

\* s[from..], s[..to] with Python's slice conventions on 1-based sequences
Drop(s, n) == SubSeq(s, n + 1, Len(s))
Take(s, n) == SubSeq(s, 1, n)

RECURSIVE LStrip(_)
LStrip(s) == IF s # <<>> /\ IsSpace(Head(s)) THEN LStrip(Tail(s)) ELSE s
RECURSIVE RStrip(_)
RStrip(s) == IF s # <<>> /\ IsSpace(s[Len(s)]) THEN RStrip(Take(s, Len(s) - 1)) ELSE s
\* str.strip()
Strip(s) == RStrip(LStrip(s))

StartsWith(s, p) == Len(s) >= Len(p) /\ Take(s, Len(p)) = p

RECURSIVE Flatten(_)
Flatten(ss) == IF ss = <<>> THEN <<>> ELSE Head(ss) \o Flatten(Tail(ss))

\* sep.join(parts)
RECURSIVE Join(_, _)
Join(parts, sep) ==
  IF parts = <<>> THEN <<>>
  ELSE IF Len(parts) = 1 THEN parts[1]
  ELSE parts[1] \o sep \o Join(Tail(parts), sep)

\* text.split("\n")
RECURSIVE SplitLines(_)
SplitLines(s) ==
  IF \A i \in DOMAIN s : s[i] # "\n" THEN <<s>>
  ELSE LET i == CHOOSE j \in DOMAIN s : s[j] = "\n" /\ \A k \in 1..(j - 1) : s[k] # "\n"
       IN <<Take(s, i - 1)>> \o SplitLines(Drop(s, i))

\* text.split(): the maximal runs of non-whitespace
RECURSIVE Words(_)
Words(s) ==
  LET t == LStrip(s)
  IN IF t = <<>> THEN <<>>
     ELSE LET n == IF \E j \in DOMAIN t : IsSpace(t[j])
                   THEN (CHOOSE j \in DOMAIN t : IsSpace(t[j]) /\ \A k \in 1..(j - 1) : ~IsSpace(t[k])) - 1
                   ELSE Len(t)
          IN <<Take(t, n)>> \o Words(Drop(t, n))

\* a local variable: value is computed once and body reads it
With(value, Body(_)) == Body(value)

SelectSeqIdx(s, Keep(_)) ==
  LET F[i \in 0..Len(s)] ==
        IF i = 0 THEN <<>> ELSE IF Keep(i) THEN Append(F[i - 1], s[i]) ELSE F[i - 1]
  IN F[Len(s)]

\* the length of the longest prefix of s made of characters of the set cs
RECURSIVE SpanIn(_, _)
SpanIn(s, cs) == IF s # <<>> /\ Head(s) \in cs THEN 1 + SpanIn(Tail(s), cs) ELSE 0

\* --------------------------------------------- patterns and text helpers

\* A character outside ASCII is written as its code point: "U+2022" is one character.
\* BULLET_PREFIX_CHARS, also the tuple tested with startswith in looks_like_heading
BULLET_PREFIX_CHARS == {"U+2022", "-", "*", "U+2013", "U+2014", "U+00B7"}
\* the character class of clean_bullet_text:
\* [\u2022\u2023\u25E6\u2043\u2219\-\*\u2013\u2014\.\)\s]
CleanBulletClass ==
  {"U+2022", "U+2023", "U+25E6", "U+2043", "U+2219", "-", "*", "U+2013", "U+2014", ".", ")"}
    \cup Spaces

\* the end (a length) of the longest match of \d+(\.\d+)* at the start of s, 0 if none
RECURSIVE DottedGroups(_)
DottedGroups(s) ==
  IF Len(s) >= 2 /\ s[1] = "." /\ IsDigit(s[2])
  THEN LET n == 1 + SpanIn(Tail(s), Digits) IN n + DottedGroups(Drop(s, n))
  ELSE 0
\* the number of (\.\d+) groups matched after the leading digits
RECURSIVE DottedGroupCount(_)
DottedGroupCount(s) ==
  IF Len(s) >= 2 /\ s[1] = "." /\ IsDigit(s[2])
  THEN 1 + DottedGroupCount(Drop(s, 1 + SpanIn(Tail(s), Digits)))
  ELSE 0

\* TOP_LEVEL_HEADING_RE.match(s): ^\d+(\.\d+)*\s+
TopLevelHeadingMatch(s) ==
  LET d == SpanIn(s, Digits)
      g == DottedGroups(Drop(s, d))
  IN d >= 1 /\ Len(s) > d + g /\ IsSpace(s[d + g + 1])

\* SECTION_HEADING_LINE_RE.match(s): ^\d+(?:\.\d+)+\s+
SectionHeadingLineMatch(s) ==
  LET d == SpanIn(s, Digits)
      g == DottedGroups(Drop(s, d))
  IN d >= 1 /\ DottedGroupCount(Drop(s, d)) >= 1 /\ Len(s) > d + g /\ IsSpace(s[d + g + 1])

\* SIMPLE_NUMBERED_LIST_RE.match(s): ^\d+[\.\)]\s+
SimpleNumberedListMatch(s) ==
  LET d == SpanIn(s, Digits)
  IN d >= 1 /\ Len(s) >= d + 2 /\ s[d + 1] \in {".", ")"} /\ IsSpace(s[d + 2])

\* re.sub(r"[^a-zA-Z0-9]+", "_", s)
RECURSIVE SubNonAlnum(_)
SubNonAlnum(s) ==
  IF s = <<>> THEN <<>>
  ELSE IF IsAlnum(Head(s)) THEN <<Head(s)>> \o SubNonAlnum(Tail(s))
  ELSE LET n == CHOOSE k \in 1..Len(s) :
                  /\ \A j \in 1..k : ~IsAlnum(s[j])
                  /\ (k = Len(s) \/ IsAlnum(s[k + 1]))
       IN <<"_">> \o SubNonAlnum(Drop(s, n))

RECURSIVE StripUnderscores(_)
StripUnderscores(s) ==
  IF s # <<>> /\ Head(s) = "_" THEN StripUnderscores(Tail(s))
  ELSE IF s # <<>> /\ s[Len(s)] = "_" THEN StripUnderscores(Take(s, Len(s) - 1))
  ELSE s

Lowered(s) == [i \in DOMAIN s |-> ToLower(s[i])]

slugify(text) ==
  With(StripUnderscores(SubNonAlnum(Lowered(Strip(text)))), LAMBDA r :
    IF r = <<>> THEN <<"s", "e", "c", "t", "i", "o", "n">> ELSE r)

\* str(n) for a small natural number
RECURSIVE IntStr(_)
IntStr(n) ==
  LET d == <<"0", "1", "2", "3", "4", "5", "6", "7", "8", "9">>
  IN IF n < 10 THEN <<d[n + 1]>> ELSE IntStr(n \div 10) \o <<d[(n % 10) + 1]>>

clean_bullet_text(text) ==
  With(Strip(text), LAMBDA t : Strip(Drop(t, SpanIn(t, CleanBulletClass))))

text_looks_like_list_item(text) ==
  With(Strip(text), LAMBDA stripped :
    /\ stripped # <<>>
    /\ \/ stripped[1] \in BULLET_PREFIX_CHARS
       \/ SimpleNumberedListMatch(stripped))

line_is_section_heading(line) ==
  With(Strip(line), LAMBDA stripped :
    /\ stripped # <<>>
    /\ stripped[1] \notin BULLET_PREFIX_CHARS
    /\ \/ SectionHeadingLineMatch(stripped)
       \/ With(SelectSeq(Words(stripped), LAMBDA w : IsAlpha(w[1])), LAMBDA alpha_words :
            /\ 2 <= Len(alpha_words) /\ Len(alpha_words) <= 8
            /\ \A i \in DOMAIN alpha_words : alpha_words[i][1] \in Uppers))

RECURSIVE EnsureBreaks(_, _)
EnsureBreaks(lines, rebuilt) ==
  IF lines = <<>> THEN rebuilt
  ELSE With(Strip(Head(lines)), LAMBDA stripped :
         With(/\ stripped # <<>> /\ line_is_section_heading(stripped)
              /\ rebuilt # <<>> /\ Strip(rebuilt[Len(rebuilt)]) # <<>>, LAMBDA gap :
           EnsureBreaks(Tail(lines),
                        (IF gap THEN Append(rebuilt, <<>>) ELSE rebuilt) \o <<Head(lines)>>)))

ensure_section_breaks(text) == Join(EnsureBreaks(SplitLines(text), <<>>), <<"\n">>)

\* re.split(r"\n{2,}", s)
RECURSIVE SplitBlankLines(_)
SplitBlankLines(s) ==
  IF ~\E i \in 1..(Len(s) - 1) : s[i] = "\n" /\ s[i + 1] = "\n" THEN <<s>>
  ELSE LET i == CHOOSE j \in 1..(Len(s) - 1) :
                  /\ s[j] = "\n" /\ s[j + 1] = "\n"
                  /\ \A k \in 1..(j - 1) : ~(s[k] = "\n" /\ s[k + 1] = "\n")
           n == SpanIn(Drop(s, i - 1), {"\n"})
       IN <<Take(s, i - 1)>> \o SplitBlankLines(Drop(s, i - 1 + n))

\* text.replace("\r\n", "\n").replace("\r", "\n")
RECURSIVE NormalizeNewlines(_)
NormalizeNewlines(s) ==
  IF s = <<>> THEN <<>>
  ELSE IF Len(s) >= 2 /\ s[1] = "\r" /\ s[2] = "\n" THEN <<"\n">> \o NormalizeNewlines(Drop(s, 2))
  ELSE IF s[1] = "\r" THEN <<"\n">> \o NormalizeNewlines(Tail(s))
  ELSE <<s[1]>> \o NormalizeNewlines(Tail(s))

Pad(blocks, n) == blocks \o [i \in 1..(n - Len(blocks)) |-> <<>>]

\* target_count = 0 stands for None (both are falsy in the code's tests)
StripEach(parts) == [i \in DOMAIN parts |-> Strip(parts[i])]

\* split_paragraph_blocks without the padding to target_count
split_paragraph_blocks_unpadded(text, target_count) ==
  With(ensure_section_breaks(NormalizeNewlines(text)), LAMBDA normalized :
  With(StripEach(SplitBlankLines(normalized)), LAMBDA primary :
  With(SelectSeq(StripEach(SplitLines(normalized)), LAMBDA ln : ln # <<>>), LAMBDA lines :
    IF Strip(normalized) = <<>> THEN << <<>> >>
    ELSE IF target_count > 0 /\ Len(primary) < target_count /\ Len(lines) >= target_count
         THEN lines
         ELSE primary)))

split_paragraph_blocks(text, target_count) ==
  With(ensure_section_breaks(NormalizeNewlines(text)), LAMBDA normalized :
  With(StripEach(SplitBlankLines(normalized)), LAMBDA primary :
  With(SelectSeq(StripEach(SplitLines(normalized)), LAMBDA ln : ln # <<>>), LAMBDA lines :
  With(IF Strip(normalized) = <<>> THEN << <<>> >>
       ELSE IF target_count > 0 /\ Len(primary) < target_count /\ Len(lines) >= target_count
            THEN lines
            ELSE primary, LAMBDA blocks :
    IF target_count > 0 /\ Len(blocks) < target_count THEN Pad(blocks, target_count) ELSE blocks))))

\* BOLD_MARKER_RE = (\*\*|__)(.+?)\1 with DOTALL: the first match at or after
\* position i (1-based), as <<start, end>> of the whole match, or <<0, 0>>
IsMarkerAt(s, i) ==
  i + 1 <= Len(s) /\ s[i] = s[i + 1] /\ s[i] \in {"*", "_"}
BoldCloseAt(s, i) ==
  \* the closing marker positions for an opening marker at i: content of at least one character
  {j \in (i + 3)..(Len(s) - 1) : s[j] = s[i] /\ s[j + 1] = s[i]}
RECURSIVE markdown_from(_, _, _)
markdown_from(s, i, last) ==
  \* i scans for the next match; last is the end of the previous match (0-based offset)
  IF i > Len(s) THEN
    IF last < Len(s) THEN << [text |-> Drop(s, last), bold |-> FALSE] >> ELSE <<>>
  ELSE IF IsMarkerAt(s, i) /\ BoldCloseAt(s, i) # {} THEN
    LET j == CHOOSE c \in BoldCloseAt(s, i) : \A d \in BoldCloseAt(s, i) : c <= d
        before == IF i - 1 > last
                  THEN << [text |-> SubSeq(s, last + 1, i - 1), bold |-> FALSE] >> ELSE <<>>
    IN before \o << [text |-> SubSeq(s, i + 2, j - 1), bold |-> TRUE] >>
              \o markdown_from(s, j + 2, j + 1)
  ELSE markdown_from(s, i + 1, last)

markdown_segments(text) ==
  With(markdown_from(text, 1, 0), LAMBDA segs :
    IF segs = <<>> THEN << [text |-> text, bold |-> FALSE] >> ELSE segs)

\* ------------------------------------------------------- document model
\* A document is its body (paragraphs and tables in document order) and the
\* paragraphs of its header and footer. A paragraph is its <w:pPr> and its runs.
\* <w:pPr> holds the named style, the <w:numPr> and the remaining properties
\* (blob); has = FALSE is a paragraph without <w:pPr>. "" is no <w:numPr>.

NoPPr == [has |-> FALSE, style |-> "Normal", numpr |-> "", blob |-> ""]
PPr(style, numpr, blob) == [has |-> TRUE, style |-> style, numpr |-> numpr, blob |-> blob]
\* a run's font attributes: bold is "none", "on" or "off"; size in half-points,
\* 0 when unset; other stands for italic, underline, font name, colour, highlight
PlainFmt == [bold |-> "none", size |-> 0, other |-> ""]
\* Python's None where a run format is expected
NoneFmt == [bold |-> "none", size |-> 0, other |-> "None"]
Run(text, fmt) == [text |-> text, fmt |-> fmt]
Para(ppr, runs) == [kind |-> "p", ppr |-> ppr, runs |-> runs, rows |-> <<>>]
\* a table is its rows; a row is its cells; a cell is its paragraphs. rid names
\* the <w:tr> element, 0 for a row made by add_row
Table(rows) == [kind |-> "t", ppr |-> NoPPr, runs |-> <<>>, rows |-> rows]
Row(rid, cells) == [rid |-> rid, cells |-> cells]
NoDoc == [body |-> <<>>, header |-> <<>>, footer |-> <<>>, exists |-> FALSE, readable |-> FALSE]
Doc(body, header, footer) ==
  [body |-> body, header |-> header, footer |-> footer, exists |-> TRUE, readable |-> TRUE]
\* a stored file that is not a docx package: Document(path) raises on it
Unreadable == [NoDoc EXCEPT !.exists = TRUE]

\* paragraph.text
ParaText(p) == Flatten([i \in DOMAIN p.runs |-> p.runs[i].text])
\* cell.text
CellText(cell) == Join([i \in DOMAIN cell |-> ParaText(cell[i])], <<"\n">>)

\* doc.paragraphs and doc.tables: the body's paragraphs, the body's tables
Paragraphs(body) == SelectSeq(body, LAMBDA e : e.kind = "p")
Tables(body) == SelectSeq(body, LAMBDA e : e.kind = "t")
\* the body position of doc.paragraphs[k] and of doc.tables[k] (k counts from 0)
BodyPos(body, k, kind) ==
  CHOOSE i \in DOMAIN body :
    body[i].kind = kind /\ Cardinality({j \in 1..(i - 1) : body[j].kind = kind}) = k
\* the index in doc.paragraphs of the body element at position i
ParagraphIndexAt(body, i) == Cardinality({j \in 1..(i - 1) : body[j].kind = "p"})

RemoveAt(seq, i) == Take(seq, i - 1) \o Drop(seq, i)
InsertAfter(seq, i, e) == Take(seq, i) \o <<e>> \o Drop(seq, i)

\* ------------------------------------------ formatting capture and restore

capture_run_formatting(p) == IF p.runs = <<>> THEN PlainFmt ELSE p.runs[1].fmt
capture_paragraph_properties(p) == p.ppr
capture_list_properties(p) == IF p.ppr.has THEN p.ppr.numpr ELSE ""

apply_paragraph_properties(p, ppr_xml) ==
  IF ~ppr_xml.has THEN p ELSE [p EXCEPT !.ppr = ppr_xml]

apply_list_properties(p, numpr_xml) ==
  IF numpr_xml = "" THEN p
  ELSE [p EXCEPT !.ppr = [has |-> TRUE, style |-> p.ppr.style,
                          numpr |-> numpr_xml, blob |-> p.ppr.blob]]

\* paragraph.style = name
SetStyle(p, name) ==
  [p EXCEPT !.ppr = [has |-> TRUE, style |-> name, numpr |-> p.ppr.numpr, blob |-> p.ppr.blob]]

\* the runs _apply_markdown_runs adds: one per non-empty segment
apply_markdown_runs(text, run_format) ==
  With(SelectSeq(markdown_segments(text), LAMBDA g : g.text # <<>>), LAMBDA segs :
    [i \in DOMAIN segs |->
       Run(segs[i].text,
           IF segs[i].bold THEN [run_format EXCEPT !.bold = "on"] ELSE run_format)])

replace_paragraph_text(p, text, run_format, ppr_xml, numpr_xml) ==
  LET rf == IF run_format = NoneFmt THEN capture_run_formatting(p) ELSE run_format
      pp == IF ~ppr_xml.has THEN capture_paragraph_properties(p) ELSE ppr_xml
      np == IF numpr_xml = "" THEN capture_list_properties(p) ELSE numpr_xml
      cleared == [p EXCEPT !.runs = IF text # <<>> THEN apply_markdown_runs(text, rf) ELSE <<>>]
  IN apply_list_properties(apply_paragraph_properties(cleared, pp), np)

\* the paragraph insert_paragraph_after creates
new_paragraph(text, run_format, ppr_xml, numpr_xml) ==
  LET rf == IF run_format = NoneFmt THEN PlainFmt ELSE run_format
      fresh == Para(NoPPr, IF text # <<>> THEN <<Run(text, rf)>> ELSE <<>>)
  IN apply_list_properties(apply_paragraph_properties(fresh, ppr_xml), numpr_xml)

\* ------------------------------------------- heading and section inference

\* the style names whose lower-cased form contains heading, title or subtitle,
\* among the style names of the modelled documents
HeadingStyles == {"Heading 1", "Title", "Subtitle"}

CountWhere(seq, Ok(_)) == Cardinality({i \in DOMAIN seq : Ok(seq[i])})

looks_like_heading(p) ==
  With(Strip(ParaText(p)), LAMBDA text :
  With(CountWhere(p.runs, LAMBDA r : r.fmt.bold = "on"), LAMBDA bold_runs :
  With(CountWhere(text, IsAlpha), LAMBDA alpha :
  With(Len(Words(text)), LAMBDA nwords :
    LET runs == p.runs
        half == Len(runs) \div 2
        upper == CountWhere(text, LAMBDA c : c \in Uppers)
    IN IF text = <<>> THEN FALSE
       ELSE IF p.ppr.style \in HeadingStyles THEN TRUE
       ELSE IF TopLevelHeadingMatch(text) THEN TRUE
       ELSE IF text[1] \in BULLET_PREFIX_CHARS THEN FALSE
       ELSE IF /\ Len(text) <= 120 /\ runs # <<>>
               /\ \/ bold_runs > 0 /\ bold_runs >= (IF half > 1 THEN half ELSE 1)
                  \/ runs[1].fmt.bold = "on" /\ nwords <= 8
            THEN TRUE
       ELSE IF runs # <<>> /\ runs[1].fmt.size >= 27 THEN TRUE
       ELSE IF alpha > 0 /\ 10 * upper > 7 * alpha /\ nwords <= 6 THEN TRUE
       ELSE IF text[Len(text)] = ":" /\ nwords <= 8 THEN TRUE
       ELSE FALSE))))

is_top_level_numbered_heading(p) == TopLevelHeadingMatch(Strip(ParaText(p)))

RECURSIVE NextUnique(_, _, _)
NextUnique(candidate, seen_ids, counter) ==
  With(candidate \o <<"_">> \o IntStr(counter), LAMBDA unique :
    IF unique \in seen_ids THEN NextUnique(candidate, seen_ids, counter + 1) ELSE unique)

\* the suffix _2 given once, without looking the new id up
UniqueId_once(candidate, seen_ids) ==
  IF candidate \in seen_ids THEN candidate \o <<"_", "2">> ELSE candidate

UniqueId(candidate, seen_ids) ==
  IF candidate \in seen_ids THEN NextUnique(candidate, seen_ids, 2) ELSE candidate

\* the loop with the heuristics consulted in numbered mode as well
RECURSIVE HeadingScan_heuristics(_, _, _, _, _)
HeadingScan_heuristics(paras, idx, numbered_mode, seen_ids, sections) ==
  IF idx >= Len(paras) THEN sections
  ELSE IF ~looks_like_heading(paras[idx + 1])
       THEN HeadingScan_heuristics(paras, idx + 1, numbered_mode, seen_ids, sections)
       ELSE With(Strip(ParaText(paras[idx + 1])), LAMBDA heading_text :
            With(UniqueId(slugify(heading_text), seen_ids), LAMBDA unique :
              HeadingScan_heuristics(paras, idx + 1, numbered_mode, seen_ids \cup {unique},
                          Append(sections, [id |-> unique, heading |-> heading_text,
                                            heading_index |-> idx]))))

\* the first loop of infer_sections: idx runs over doc.paragraphs from 0
RECURSIVE HeadingScan(_, _, _, _, _)
HeadingScan(paras, idx, numbered_mode, seen_ids, sections) ==
  IF idx >= Len(paras) THEN sections
  ELSE IF ~(IF numbered_mode THEN is_top_level_numbered_heading(paras[idx + 1])
            ELSE looks_like_heading(paras[idx + 1]))
       THEN HeadingScan(paras, idx + 1, numbered_mode, seen_ids, sections)
       ELSE With(Strip(ParaText(paras[idx + 1])), LAMBDA heading_text :
            With(UniqueId(slugify(heading_text), seen_ids), LAMBDA unique :
              HeadingScan(paras, idx + 1, numbered_mode, seen_ids \cup {unique},
                          Append(sections, [id |-> unique, heading |-> heading_text,
                                            heading_index |-> idx]))))

IsBlankPara(p) == Strip(ParaText(p)) = <<>>

RECURSIVE TrimStart(_, _, _)
TrimStart(paras, start, end) ==
  IF start < end /\ IsBlankPara(paras[start + 1]) THEN TrimStart(paras, start + 1, end) ELSE start
\* the range left with its trailing blank paragraphs
TrimEnd_none(paras, start, end) == end

RECURSIVE TrimEnd(_, _, _)
TrimEnd(paras, start, end) ==
  IF end > start /\ IsBlankPara(paras[end]) THEN TrimEnd(paras, start, end - 1) ELSE end

ParagraphMeta(paras, pi) ==
  [index |-> pi, style |-> paras[pi + 1].ppr.style,
   ppr_xml |-> capture_paragraph_properties(paras[pi + 1]),
   numpr_xml |-> capture_list_properties(paras[pi + 1]),
   run_format |-> capture_run_formatting(paras[pi + 1])]

\* the second loop of infer_sections, for the section of the heading head
\* whose paragraphs end before the paragraph of index last
SectionOf(paras, head, last) ==
  With(TrimStart(paras, head.heading_index + 1, last), LAMBDA start :
  With(TrimEnd(paras, start, last), LAMBDA end :
    [id |-> head.id, heading |-> head.heading,
     heading_index |-> head.heading_index,
     content_start |-> start, content_end |-> end,
     paragraphs |-> [k \in 1..(end - start) |-> ParagraphMeta(paras, start + k - 1)],
     default_text |->
       Join(SelectSeq([k \in 1..(end - start) |-> Strip(ParaText(paras[start + k]))],
                      LAMBDA t : t # <<>>),
            <<"\n", "\n">>)]))

infer_sections(doc) ==
  With(Paragraphs(doc.body), LAMBDA paras :
  With(\E i \in DOMAIN paras : is_top_level_numbered_heading(paras[i]), LAMBDA numbered_mode :
  With(HeadingScan(paras, 0, numbered_mode, {}, <<>>), LAMBDA heads :
    [i \in DOMAIN heads |->
       SectionOf(paras, heads[i],
                 IF i + 1 <= Len(heads) THEN heads[i + 1].heading_index ELSE Len(paras))])))

\* ------------------------------------------------------ table summariser

\* None where a section id is expected (a section id is never empty)
NoSection == <<>>

Chars_Table == <<"T", "a", "b", "l", "e", " ">>

\* the walk over the previous siblings of a table: i is the body position looked at
RECURSIVE PrecedingSection(_, _, _)
PrecedingSection(body, i, sections) ==
  IF i < 1 THEN NoSection
  ELSE IF body[i].kind # "p" THEN PrecedingSection(body, i - 1, sections)
  ELSE LET paragraph_index == ParagraphIndexAt(body, i)
           InRange(k) ==
             LET start == sections[k].content_start
                 end == sections[k].content_end
                 hi == IF start > end - 1 THEN start ELSE end - 1
             IN start <= paragraph_index /\ paragraph_index <= hi
           by_range == {k \in DOMAIN sections : InRange(k)}
           \* a dict comprehension keeps the last section of a heading index
           by_heading == {k \in DOMAIN sections : sections[k].heading_index = paragraph_index}
           Min(S) == CHOOSE k \in S : \A j \in S : k <= j
           Max(S) == CHOOSE k \in S : \A j \in S : k >= j
       IN IF by_range # {} THEN sections[Min(by_range)].id
          ELSE IF by_heading # {} THEN sections[Max(by_heading)].id
          ELSE PrecedingSection(body, i - 1, sections)

\* the summary of doc.tables[t], the element table of the body
TableSummary(body, table, t, sections) ==
  With([r \in DOMAIN table.rows |->
          [c \in DOMAIN table.rows[r].cells |-> Strip(CellText(table.rows[r].cells[c]))]],
       LAMBDA table_rows :
  With(IF table_rows # <<>> /\ table_rows[1] # <<>> THEN Strip(table_rows[1][1]) ELSE <<>>,
       LAMBDA first_cell :
    [table_index |-> t,
     rows |-> table_rows,
     cell_meta |-> [r \in DOMAIN table.rows |->
                      [c \in DOMAIN table.rows[r].cells |-> [row |-> r - 1, col |-> c - 1]]],
     section_id |-> PrecedingSection(body, BodyPos(body, t, "t") - 1, sections),
     label |-> IF first_cell # <<>> THEN first_cell ELSE Chars_Table \o IntStr(t + 1)]))

summarize_tables(doc, sections) ==
  With(Tables(doc.body), LAMBDA tables :
    [t \in 1..Len(tables) |-> TableSummary(doc.body, tables[t], t - 1, sections)])

\* ------------------------------------------------ schema and field map

Chars_content == <<"_", "c", "o", "n", "t", "e", "n", "t">>
Chars_table == <<"t", "a", "b", "l", "e", "_">>

\* field_map is a dict: an assignment to a key it holds replaces the value in place
DictSet(dict, key, value) ==
  IF \E i \in DOMAIN dict : dict[i].name = key
  THEN [i \in DOMAIN dict |-> IF dict[i].name = key THEN [name |-> key, meta |-> value] ELSE dict[i]]
  ELSE Append(dict, [name |-> key, meta |-> value])
DictHas(dict, key) == \E i \in DOMAIN dict : dict[i].name = key
DictGet(dict, key) == dict[CHOOSE i \in DOMAIN dict : dict[i].name = key].meta

EmptySection ==
  [id |-> <<>>, heading |-> <<>>, heading_index |-> 0, content_start |-> 0,
   content_end |-> 0, paragraphs |-> <<>>, default_text |-> <<>>]

SectionFieldMeta(section) ==
  [type |-> "section", section |-> section, table_index |-> 0, rows |-> <<>>, options |-> <<>>]
TableFieldMeta(table_info) ==
  [type |-> "table", section |-> EmptySection, table_index |-> table_info.table_index,
   rows |-> table_info.cell_meta, options |-> <<>>]

\* the name attach_table_field gives a table
TableFieldName(table_info) ==
  IF table_info.section_id # NoSection
  THEN table_info.section_id \o <<"_">> \o Chars_table \o IntStr(table_info.table_index + 1)
  ELSE Chars_table \o IntStr(table_info.table_index + 1)

TablePublicField(table_info) ==
  [name |-> TableFieldName(table_info), type |-> "table", label |-> table_info.label,
   default_text |-> <<>>, default_rows |-> table_info.rows]

SectionPublicField(section) ==
  [name |-> section.id \o Chars_content, type |-> "textarea", label |-> section.heading,
   default_text |-> section.default_text, default_rows |-> <<>>]

\* build_schema returns schema and field_map; the two are folded over the
\* sections, each followed by its tables, and then over the tables left over
RECURSIVE AttachTables(_, _)
AttachTables(field_map, infos) ==
  IF infos = <<>> THEN field_map
  ELSE AttachTables(DictSet(field_map, TableFieldName(Head(infos)), TableFieldMeta(Head(infos))),
                    Tail(infos))

TablesOfSection(tables, section_id) == SelectSeq(tables, LAMBDA t : t.section_id = section_id)

RECURSIVE SectionsFieldMap(_, _, _)
SectionsFieldMap(field_map, sections, tables) ==
  IF sections = <<>> THEN field_map
  ELSE LET section == Head(sections)
           with_section == DictSet(field_map, section.id \o Chars_content, SectionFieldMeta(section))
       IN SectionsFieldMap(AttachTables(with_section, TablesOfSection(tables, section.id)),
                           Tail(sections), tables)

\* the tables attach_table_field was called for in the loop over the sections
AppliedTables(sections, tables) ==
  {tables[t].table_index : t \in {u \in DOMAIN tables :
      \E k \in DOMAIN sections : tables[u].section_id = sections[k].id}}

build_field_map(sections, tables) ==
  AttachTables(SectionsFieldMap(<<>>, sections, tables),
               SelectSeq(tables, LAMBDA t : t.table_index \notin AppliedTables(sections, tables)))

\* the schema without the blocks of the tables no section holds
build_public_schema_sections_only(sections, tables) ==
  [k \in DOMAIN sections |->
     [section |-> sections[k].heading,
      fields |-> <<SectionPublicField(sections[k])>>
                   \o [i \in DOMAIN TablesOfSection(tables, sections[k].id) |->
                         TablePublicField(TablesOfSection(tables, sections[k].id)[i])]]]

build_public_schema(sections, tables) ==
  LET SectionBlock(k) ==
        LET mine == TablesOfSection(tables, sections[k].id)
        IN [section |-> sections[k].heading,
            fields |-> <<SectionPublicField(sections[k])>>
                         \o [i \in DOMAIN mine |-> TablePublicField(mine[i])]]
      orphans == SelectSeq(tables, LAMBDA t : t.table_index \notin AppliedTables(sections, tables))
  IN [k \in DOMAIN sections |-> SectionBlock(k)]
       \o [i \in DOMAIN orphans |->
             [section |-> orphans[i].label, fields |-> <<TablePublicField(orphans[i])>>]]

\* ----------------------------------------------------- field application
\* An operation on the document returns the new body, or fails (raises).

Ok(body) == [ok |-> TRUE, body |-> body]
Failed == [ok |-> FALSE, body |-> <<>>]

\* None where a payload value is expected, and the values of a payload:
\* a scalar (text, or null), a list of rows (table) or a list of entries (checkbox)
Null == <<"null">>
Scalar(text) == [kind |-> "scalar", text |-> text, items |-> <<>>]
List(items) == [kind |-> "list", text |-> <<>>, items |-> items]
\* "" if value is None else str(value)
StrOrEmpty(text) == IF text = Null THEN <<>> ELSE text

\* doc.paragraphs[k], and the body with doc.paragraphs[k] replaced, removed, followed
ParaAt(body, k) == body[BodyPos(body, k, "p")]
SetPara(body, k, p) == [body EXCEPT ![BodyPos(body, k, "p")] = p]
remove_paragraph(body, k) == RemoveAt(body, BodyPos(body, k, "p"))
insert_paragraph_after(body, k, p) == InsertAfter(body, BodyPos(body, k, "p"), p)
NumParas(body) == Len(Paragraphs(body))

\* the metadata of a block when the section captured no paragraph: {}
EmptyMeta ==
  [index |-> 0, style |-> "", ppr_xml |-> NoPPr, numpr_xml |-> "", run_format |-> NoneFmt]

\* paragraph_meta_for with a block past the captured entries given the first
\* entry, not the last
paragraph_meta_for_first(paragraph_metas, index, block_text) ==
  With(IF paragraph_metas # <<>>
       THEN IF index < Len(paragraph_metas) THEN paragraph_metas[index + 1]
            ELSE paragraph_metas[1]
       ELSE EmptyMeta, LAMBDA base :
    IF ~text_looks_like_list_item(block_text) THEN [base EXCEPT !.numpr_xml = ""] ELSE base)

\* paragraph_meta_for(index, block_text); index counts from 0
paragraph_meta_for(paragraph_metas, index, block_text) ==
  With(IF paragraph_metas # <<>>
       THEN IF index < Len(paragraph_metas) THEN paragraph_metas[index + 1]
            ELSE paragraph_metas[Len(paragraph_metas)]
       ELSE EmptyMeta, LAMBDA base :
    IF ~text_looks_like_list_item(block_text) THEN [base EXCEPT !.numpr_xml = ""] ELSE base)

\* the loop that removes the leftover paragraphs: idx from end - 1 down to start + 1
RECURSIVE RemoveLeftover(_, _, _)
RemoveLeftover(body, idx, start) ==
  IF idx <= start THEN body
  ELSE RemoveLeftover(IF idx < NumParas(body) THEN remove_paragraph(body, idx) ELSE body,
                      idx - 1, start)

\* the loop that inserts blocks[1:], each after the paragraph inserted before it
RECURSIVE InsertBlocks(_, _, _, _, _)
InsertBlocks(body, current, blocks, block_metas, bi) ==
  IF bi > Len(blocks) - 1 THEN body
  ELSE LET meta == block_metas[bi + 1]
           made == new_paragraph(blocks[bi + 1], meta.run_format, meta.ppr_xml, meta.numpr_xml)
           styled == IF meta.style # "" THEN SetStyle(made, meta.style) ELSE made
       IN InsertBlocks(insert_paragraph_after(body, current, styled), current + 1,
                       blocks, block_metas, bi + 1)

\* the primary paragraph once the first block is written to it, with the
\* style and the properties of its metadata put back
write_primary(primary, block, primary_meta, target_count) ==
  With(Strip(ParaText(primary)), LAMBDA original_primary_text :
  With(replace_paragraph_text(
         primary,
         IF target_count \in {0, 1} /\ Strip(block) # <<>> /\ Strip(block) = original_primary_text
         THEN original_primary_text ELSE block,
         primary_meta.run_format, primary_meta.ppr_xml, primary_meta.numpr_xml), LAMBDA written :
  With(IF primary_meta.style # "" THEN SetStyle(written, primary_meta.style) ELSE written,
       LAMBDA styled :
    apply_list_properties(apply_paragraph_properties(styled, primary_meta.ppr_xml),
                          primary_meta.numpr_xml))))

\* The part of apply_textarea_field after start and end are settled.
write_blocks(body, start, end0, paragraph_metas, value) ==
  With(split_paragraph_blocks(StrOrEmpty(value), Len(paragraph_metas)), LAMBDA split :
  With([i \in DOMAIN split |-> paragraph_meta_for(paragraph_metas, i - 1, split[i])],
       LAMBDA block_metas :
  With([i \in DOMAIN split |->
          IF block_metas[i].numpr_xml # "" THEN clean_bullet_text(split[i]) ELSE split[i]],
       LAMBDA blocks :
  With(write_primary(ParaAt(body, start), blocks[1], block_metas[1], Len(paragraph_metas)),
       LAMBDA restored :
    LET lo == start + 1
        end == IF NumParas(body) < (IF lo > end0 THEN lo ELSE end0)
               THEN NumParas(body) ELSE (IF lo > end0 THEN lo ELSE end0)
    IN InsertBlocks(RemoveLeftover(SetPara(body, start, restored), end - 1, start),
                    start, blocks, block_metas, 1)))))

\* The part of apply_textarea_field that settles start and end: the body
\* (with the paragraph it may add), start and end, or a failure.
\* proxies_equal is whether two Paragraph proxies of one <w:p> compare equal
\* in the python-docx build at hand: list.index(new_para) raises ValueError
\* when they do not.
Located(body, start, end) == [ok |-> TRUE, body |-> body, start |-> start, end |-> end]
NotLocated == [ok |-> FALSE, body |-> <<>>, start |-> 0, end |-> 0]
locate_primary(body0, start0, end0, heading_index, proxies_equal) ==
  With(IF NumParas(body0) = 0 THEN Append(body0, Para(NoPPr, <<>>)) ELSE body0, LAMBDA body :
  With(NumParas(body), LAMBDA n :
    IF start0 >= n THEN
      IF heading_index >= 0 /\ heading_index < n THEN
        IF ~proxies_equal THEN NotLocated
        ELSE Located(insert_paragraph_after(body, heading_index, Para(NoPPr, <<>>)),
                     heading_index + 1, heading_index + 2)
      ELSE Located(Append(body, Para(NoPPr, <<>>)), n, n + 1)
    ELSE LET start == IF start0 < 0 THEN 0 ELSE start0
         IN Located(body, start, IF start + 1 > end0 THEN start + 1 ELSE end0)))

\* apply_textarea_field(doc, field_meta, value) with field_meta's start, end,
\* heading_index (-1 for None) and paragraphs
apply_textarea_field(body0, start0, end0, heading_index, paragraph_metas, value, proxies_equal) ==
  With(locate_primary(body0, start0, end0, heading_index, proxies_equal), LAMBDA at :
    IF ~at.ok THEN Failed
    ELSE Ok(write_blocks(at.body, at.start, at.end, paragraph_metas, value)))

replace_section_content(body, section, value, proxies_equal) ==
  apply_textarea_field(body, section.content_start, section.content_end,
                       section.heading_index, section.paragraphs, value, proxies_equal)

\* set_cell_text(cell, text): the cell's paragraphs afterwards
set_cell_text(cell, text) ==
  LET value == StrOrEmpty(text)
      primary == IF cell = <<>> THEN Para(NoPPr, <<>>) ELSE cell[1]
  IN <<replace_paragraph_text(primary, value, NoneFmt, NoPPr, "")>>

MaxOf(S) == IF S = {} THEN 0 ELSE CHOOSE n \in S : \A m \in S : n >= m

\* len(table.columns): the grid columns, which the modelled tables have one cell each in
NumColumns(table) == MaxOf({Len(table.rows[r].cells) : r \in DOMAIN table.rows})

\* A table value is a scalar or a list of rows; a row of the list is a list of
\* cells (kind "list"), a mapping from column index to cell (kind "dict",
\* items[c] = Missing where str(c - 1) is no key) or anything else (kind "scalar").
Missing == <<"missing">>
RowList(cells) == [kind |-> "list", text |-> <<>>, items |-> cells]
RowDict(cells) == [kind |-> "dict", text |-> <<>>, items |-> cells]

\* value_rows of apply_table_field
value_rows_of(table, value) ==
  IF value.kind = "list"
  THEN [i \in DOMAIN value.items |->
          LET row == value.items[i]
          IN IF row.kind = "list"
             THEN [c \in DOMAIN row.items |-> IF row.items[c] = Null THEN <<>> ELSE row.items[c]]
             ELSE IF row.kind = "dict"
             THEN [c \in 1..NumColumns(table) |->
                     IF c \in DOMAIN row.items /\ row.items[c] # Missing
                     THEN row.items[c] ELSE <<>>]
             ELSE <<row.text>>]
  ELSE << <<value.text>> >>

\* table.add_row(): a row with one cell per grid column, each an empty paragraph
add_row(table) ==
  [table EXCEPT !.rows =
     Append(@, Row(0, [c \in 1..NumColumns(table) |-> <<Para(NoPPr, <<>>)>>]))]

RECURSIVE GrowRows(_, _)
GrowRows(table, target_rows) ==
  IF Len(table.rows) < target_rows THEN GrowRows(add_row(table), target_rows) ELSE table

\* the rows deleted from the front of the table instead
RECURSIVE ShrinkRows_first(_, _)
ShrinkRows_first(table, target_rows) ==
  IF Len(table.rows) > target_rows
  THEN ShrinkRows_first([table EXCEPT !.rows = Tail(@)], target_rows)
  ELSE table

\* delete_table_row(table, len(table.rows) - 1) while there are too many rows
RECURSIVE ShrinkRows(_, _)
ShrinkRows(table, target_rows) ==
  IF Len(table.rows) > target_rows
  THEN ShrinkRows([table EXCEPT !.rows = Take(@, Len(@) - 1)], target_rows)
  ELSE table

\* the loop of apply_table_field over the rows of the resized table
fill_rows(sized, value_rows) ==
  LET max_columns == MaxOf({Len(sized.rows[r].cells) : r \in DOMAIN sized.rows})
      RowValues(r) == IF r <= Len(value_rows) THEN value_rows[r]
                      ELSE [c \in 1..max_columns |-> <<>>]
  IN [sized EXCEPT !.rows =
        [r \in DOMAIN sized.rows |->
           [sized.rows[r] EXCEPT !.cells =
              [c \in DOMAIN sized.rows[r].cells |->
                 set_cell_text(sized.rows[r].cells[c],
                               IF c <= Len(RowValues(r)) THEN RowValues(r)[c] ELSE <<>>)]]]]

apply_table_to(table, value) ==
  With(value_rows_of(table, value), LAMBDA value_rows :
  With(IF Len(value_rows) > 1 THEN Len(value_rows) ELSE 1, LAMBDA target_rows :
    fill_rows(ShrinkRows(GrowRows(table, target_rows), target_rows), value_rows)))

apply_table_field(body, field_meta, value) ==
  IF field_meta.table_index < 0 \/ field_meta.table_index >= Len(Tables(body)) THEN body
  ELSE LET at == BodyPos(body, field_meta.table_index, "t")
       IN [body EXCEPT ![at] = apply_table_to(body[at], value)]

\* A checkbox value is a list of entries: a mapping with a value, selected
\* and text (kind "dict"; selected FALSE and text empty where the key is
\* absent) or a bare string (kind "str").
Entry(value, selected, text) == [kind |-> "dict", value |-> value, selected |-> selected, text |-> text]
Bare(value) == [kind |-> "str", value |-> value, selected |-> TRUE, text |-> <<>>]
Option(paragraph_index, value, text, style) ==
  [paragraph_index |-> paragraph_index, value |-> value, text |-> text, style |-> style]

\* entries.get(value) with an option the list does not mention taken as not selected
EntryFor_default_unselected(value, option_value) ==
  LET hits == IF value.kind = "list"
              THEN {i \in DOMAIN value.items : value.items[i].value = option_value} ELSE {}
  IN IF hits = {} THEN [selected |-> FALSE, text |-> <<>>]
     ELSE [selected |-> value.items[MaxOf(hits)].selected, text |-> value.items[MaxOf(hits)].text]

\* entries[value]: the last entry of the list with that value decides
EntryFor(value, option_value) ==
  LET hits == IF value.kind = "list"
              THEN {i \in DOMAIN value.items : value.items[i].value = option_value} ELSE {}
  IN IF hits = {} THEN [selected |-> TRUE, text |-> <<>>]
     ELSE [selected |-> value.items[MaxOf(hits)].selected, text |-> value.items[MaxOf(hits)].text]

\* sorted(seq, key, reverse=True) as the order of the positions of seq, given
\* the key of each position: stable, the larger key first
RECURSIVE DescendingOrder(_, _)
DescendingOrder(keys, left) ==
  IF left = {} THEN <<>>
  ELSE LET top == CHOOSE i \in left :
                    /\ \A j \in left : keys[i] >= keys[j]
                    /\ \A j \in left : j < i => keys[j] < keys[i]
       IN <<top>> \o DescendingOrder(keys, left \ {top})

SortedDescending(seq, keys) ==
  LET order == DescendingOrder(keys, DOMAIN seq) IN [i \in DOMAIN seq |-> seq[order[i]]]

\* the options in the order the metadata lists them
ordered_options_as_listed(options) == options

ordered_options(options) ==
  SortedDescending(options, [i \in DOMAIN options |-> options[i].paragraph_index])

\* paragraph.style = option["style"] and replace_paragraph_text with what the
\* paragraph holds then
restyle(p, style, new_text) ==
  With(IF style # "" THEN SetStyle(p, style) ELSE p, LAMBDA styled :
    replace_paragraph_text(styled, new_text, capture_run_formatting(styled),
                           capture_paragraph_properties(styled),
                           capture_list_properties(styled)))

\* one round of the loop of apply_checkbox_field: the option and its entry
apply_option(body, option, entry) ==
  LET idx == option.paragraph_index
  IN IF idx >= NumParas(body) \/ idx < 0 THEN body
     ELSE IF ~entry.selected THEN remove_paragraph(body, idx)
     ELSE SetPara(body, idx,
                  restyle(ParaAt(body, idx), option.style,
                          IF entry.text # <<>> THEN entry.text ELSE option.text))

RECURSIVE ApplyOptions(_, _, _)
ApplyOptions(body, options, value) ==
  IF options = <<>> THEN body
  ELSE ApplyOptions(apply_option(body, Head(options), EntryFor(value, Head(options).value)),
                    Tail(options), value)

apply_checkbox_field(body, field_meta, value) ==
  ApplyOptions(body, ordered_options(field_meta.options), value)

\* ------------------------------------------------ placeholder substitution

\* the characters an identifier of PLACEHOLDER_RE is made of: [a-zA-Z0-9_.-]
IdentChars == Uppers \cup Lowers \cup Digits \cup {"_", ".", "-"}

\* the end of the match of \{\{\s*key\s*\}\} that starts at position i of s, 0 if none
KeyMatchEnd(s, i, key) ==
  IF ~(i + 1 <= Len(s) /\ s[i] = "{" /\ s[i + 1] = "{") THEN 0
  ELSE With(i + 2 + SpanIn(Drop(s, i + 1), Spaces), LAMBDA a :
       With(a + Len(key), LAMBDA b :
       With(b + SpanIn(Drop(s, b - 1), Spaces), LAMBDA c :
         IF /\ b - 1 <= Len(s) /\ SubSeq(s, a, b - 1) = key
            /\ c + 1 <= Len(s) /\ s[c] = "}" /\ s[c + 1] = "}"
         THEN c + 1 ELSE 0)))

\* pattern.sub(replacement, s) with the replacement already expanded
RECURSIVE SubKey(_, _, _)
SubKey(s, key, replacement) ==
  IF s = <<>> THEN <<>>
  ELSE With(KeyMatchEnd(s, 1, key), LAMBDA e :
         IF e > 0 THEN replacement \o SubKey(Drop(s, e), key, replacement)
         ELSE <<Head(s)>> \o SubKey(Tail(s), key, replacement))

\* The replacement of re.sub is a template: a backslash starts an escape.
\* \\ and the control escapes are expanded, a backslash before any other ASCII
\* letter or before a digit other than 0 or at the end is an error (bad escape,
\* invalid group reference), a backslash before anything else stays.
Escapes ==
  [c \in {"n", "t", "r", "a", "b", "f", "v", "\\"} |->
     CASE c = "n" -> "\n" [] c = "t" -> "\t" [] c = "r" -> "\r" [] c = "a" -> "U+0007"
       [] c = "b" -> "U+0008" [] c = "f" -> "U+000C" [] c = "v" -> "U+000B" [] c = "\\" -> "\\"]
RECURSIVE TemplateOk(_)
TemplateOk(t) ==
  IF t = <<>> THEN TRUE
  ELSE IF Head(t) # "\\" THEN TemplateOk(Tail(t))
  ELSE IF Len(t) = 1 THEN FALSE
  ELSE IF t[2] \in DOMAIN Escapes THEN TemplateOk(Drop(t, 2))
  ELSE IF IsAlpha(t[2]) \/ t[2] \in (Digits \ {"0"}) THEN FALSE
  ELSE TemplateOk(Drop(t, 2))
RECURSIVE ExpandTemplate(_)
ExpandTemplate(t) ==
  IF t = <<>> THEN <<>>
  ELSE IF Head(t) # "\\" \/ Len(t) = 1 THEN <<Head(t)>> \o ExpandTemplate(Tail(t))
  ELSE IF t[2] \in DOMAIN Escapes THEN <<Escapes[t[2]]>> \o ExpandTemplate(Drop(t, 2))
  ELSE IF t[2] = "0" THEN <<"U+0000">> \o ExpandTemplate(Drop(t, 2))
  ELSE <<t[1], t[2]>> \o ExpandTemplate(Drop(t, 2))

\* the payload: the items of the dict data in order, [key, value]
Item(key, value) == [key |-> key, value |-> value]
DataHas(data, key) == \E i \in DOMAIN data : data[i].key = key
DataGet(data, key) == data[CHOOSE i \in DOMAIN data : data[i].key = key].value
ScalarItems(data) == SelectSeq(data, LAMBDA it : it.value.kind = "scalar")

\* re.sub raises for some scalar value of the payload
BadReplacement(data) ==
  \E i \in DOMAIN data : data[i].value.kind = "scalar" /\ ~TemplateOk(StrOrEmpty(data[i].value.text))

\* new_text of replace_in_paragraph: one substitution per scalar item, in order
RECURSIVE SubstituteAll(_, _)
SubstituteAll(text, items) ==
  IF items = <<>> THEN text
  ELSE SubstituteAll(SubKey(text, Head(items).key,
                            ExpandTemplate(StrOrEmpty(Head(items).value.text))),
                     Tail(items))

replace_in_paragraph(p, data) ==
  With(ParaText(p), LAMBDA orig_text :
  With(SubstituteAll(orig_text, ScalarItems(data)), LAMBDA new_text :
    IF new_text # orig_text
    THEN replace_paragraph_text(p, new_text, capture_run_formatting(p),
                                capture_paragraph_properties(p), capture_list_properties(p))
    ELSE p))

\* the loops of replace_placeholders over the body, the table cells and the headers
replace_in_paragraphs(paras, data) ==
  [k \in DOMAIN paras |-> replace_in_paragraph(paras[k], data)]

replace_in_body(body, data) ==
  [i \in DOMAIN body |->
     IF body[i].kind = "p" THEN replace_in_paragraph(body[i], data)
     ELSE [body[i] EXCEPT !.rows =
             [r \in DOMAIN @ |->
                [@[r] EXCEPT !.cells =
                   [c \in DOMAIN @ |-> replace_in_paragraphs(@[c], data)]]]]]

HasTextParagraph(body) ==
  \E i \in DOMAIN body :
    \/ body[i].kind = "p"
    \/ \E r \in DOMAIN body[i].rows : \E c \in DOMAIN body[i].rows[r].cells :
         body[i].rows[r].cells[c] # <<>>

\* ordered_fields: the items of field_map sorted by item[1].get("start", 0),
\* reverse=True. No entry build_schema makes has a "start" key.
FieldStart(field_meta) == 0

ordered_fields(field_map) ==
  SortedDescending(field_map, [i \in DOMAIN field_map |-> FieldStart(field_map[i].meta)])

\* apply_field. The payloads of the model give a section field a scalar.
apply_field(body, field_meta, value, proxies_equal) ==
  IF field_meta.type = "section"
  THEN replace_section_content(body, field_meta.section, value.text, proxies_equal)
  ELSE IF field_meta.type = "table" THEN Ok(apply_table_field(body, field_meta, value))
  ELSE IF field_meta.type = "checkbox-group" THEN Ok(apply_checkbox_field(body, field_meta, value))
  ELSE Ok(body)

\* the loop over ordered_fields; names is the fields applied so far, in order
RECURSIVE ApplyFields(_, _, _, _, _)
ApplyFields(body, fields, data, proxies_equal, names) ==
  IF fields = <<>> THEN [ok |-> TRUE, body |-> body, applied |-> names]
  ELSE IF ~DataHas(data, Head(fields).name)
  THEN ApplyFields(body, Tail(fields), data, proxies_equal, names)
  ELSE With(apply_field(body, Head(fields).meta, DataGet(data, Head(fields).name), proxies_equal),
            LAMBDA r :
         IF ~r.ok THEN [ok |-> FALSE, body |-> body, applied |-> Append(names, Head(fields).name)]
         ELSE ApplyFields(r.body, Tail(fields), data, proxies_equal,
                          Append(names, Head(fields).name)))

\* the fallback when metadata has no field_map: the payload keys that are section ids
RECURSIVE ApplySections(_, _, _, _, _)
ApplySections(body, data, sections, proxies_equal, names) ==
  IF data = <<>> THEN [ok |-> TRUE, body |-> body, applied |-> names]
  ELSE LET hits == {k \in DOMAIN sections : sections[k].id = Head(data).key}
       IN IF hits = {} THEN ApplySections(body, Tail(data), sections, proxies_equal, names)
          ELSE With(replace_section_content(body, sections[MaxOf(hits)], Head(data).value.text,
                                            proxies_equal), LAMBDA r :
                 IF ~r.ok
                 THEN [ok |-> FALSE, body |-> body, applied |-> Append(names, Head(data).key)]
                 ELSE ApplySections(r.body, Tail(data), sections, proxies_equal,
                                    Append(names, Head(data).key)))

\* the first part of replace_placeholders: the scalar substitutions over the
\* body, the tables and the headers and footers
substitute_all(doc, data) ==
  With(~BadReplacement(data), LAMBDA headers_ok :
    Doc(replace_in_body(doc.body, data),
        IF headers_ok THEN replace_in_paragraphs(doc.header, data) ELSE doc.header,
        IF headers_ok THEN replace_in_paragraphs(doc.footer, data) ELSE doc.footer))

\* the second part: the structured fields of the metadata
apply_structured(body, data, metadata, proxies_equal) ==
  IF ~metadata.exists THEN [ok |-> TRUE, body |-> body, applied |-> <<>>]
  ELSE IF metadata.field_map # <<>>
  THEN ApplyFields(body, ordered_fields(metadata.field_map), data, proxies_equal, <<>>)
  ELSE ApplySections(body, data, metadata.auto_sections, proxies_equal, <<>>)

\* replace_placeholders with the structured fields applied first and the
\* scalar substitutions after them
replace_placeholders_fields_first(doc, data, metadata, proxies_equal) ==
  IF BadReplacement(data) /\ HasTextParagraph(doc.body)
  THEN [ok |-> FALSE, doc |-> doc, applied |-> <<>>]
  ELSE With(apply_structured(doc.body, data, metadata, proxies_equal), LAMBDA r :
         [ok |-> r.ok, doc |-> substitute_all([doc EXCEPT !.body = r.body], data),
          applied |-> r.applied])

\* replace_placeholders(doc, data, metadata): the document afterwards, whether
\* the call returned (ok) and the structured fields applied, in order
replace_placeholders(doc, data, metadata, proxies_equal) ==
  IF BadReplacement(data) /\ HasTextParagraph(doc.body)
  THEN [ok |-> FALSE, doc |-> doc, applied |-> <<>>]
  ELSE With(substitute_all(doc, data), LAMBDA substituted :
       With(apply_structured(substituted.body, data, metadata, proxies_equal), LAMBDA r :
         [ok |-> r.ok, doc |-> [substituted EXCEPT !.body = r.body], applied |-> r.applied]))

\* the identifiers PLACEHOLDER_RE finds in a text: \{\{\s*([a-zA-Z0-9_.-]+)\s*\}\}
IdentAt(s, i) ==
  IF ~(i + 1 <= Len(s) /\ s[i] = "{" /\ s[i + 1] = "{") THEN <<>>
  ELSE With(i + 2 + SpanIn(Drop(s, i + 1), Spaces), LAMBDA a :
       With(SpanIn(Drop(s, a - 1), IdentChars), LAMBDA n :
       With(a + n + SpanIn(Drop(s, a + n - 1), Spaces), LAMBDA c :
         IF n >= 1 /\ c + 1 <= Len(s) /\ s[c] = "}" /\ s[c + 1] = "}"
         THEN SubSeq(s, a, a + n - 1) ELSE <<>>)))
FindPlaceholders(s) == {IdentAt(s, i) : i \in DOMAIN s} \ {<<>>}

\* extract_placeholders returns sorted(found); the model keeps the set found
\* collect_from_paragraphs; a body paragraph counts as a list of one
collect_from_paragraphs(ps) == UNION {FindPlaceholders(ParaText(ps[i])) : i \in DOMAIN ps}
\* what extract_placeholders walks: the body paragraphs, the paragraphs of the
\* table cells, the header and footer paragraphs
TextParagraphs(doc) ==
  Flatten([i \in DOMAIN doc.body |->
             IF doc.body[i].kind = "p" THEN <<doc.body[i]>>
             ELSE Flatten([r \in DOMAIN doc.body[i].rows |->
                             Flatten(doc.body[i].rows[r].cells)])])
    \o doc.header \o doc.footer

extract_placeholders(doc) == collect_from_paragraphs(TextParagraphs(doc))

\* ---------------------------------------------------- services and store

SCHEMA_VERSION == 2

\* load_metadata returns {} when no file is stored
NoMetadata ==
  [exists |-> FALSE, has_tables |-> FALSE, placeholders |-> {}, auto_sections |-> <<>>,
   schema |-> <<>>, field_map |-> <<>>, tables |-> <<>>, schema_version |-> 0]

\* analyze_template keeping the sections of the metadata file it replaces
analyze_template_keeping(doc) ==
  With(infer_sections(doc), LAMBDA sections :
  With(summarize_tables(doc, sections), LAMBDA tables :
    [exists |-> TRUE, has_tables |-> TRUE,
     placeholders |-> extract_placeholders(doc),
     auto_sections |-> metaStore.auto_sections \o sections,
     schema |-> build_public_schema(sections, tables),
     field_map |-> build_field_map(sections, tables),
     tables |-> tables,
     schema_version |-> SCHEMA_VERSION]))

\* the metadata analyze_template builds from the stored document and saves
analyze_template(doc) ==
  With(infer_sections(doc), LAMBDA sections :
  With(summarize_tables(doc, sections), LAMBDA tables :
    [exists |-> TRUE, has_tables |-> TRUE,
     placeholders |-> extract_placeholders(doc),
     auto_sections |-> sections,
     schema |-> build_public_schema(sections, tables),
     field_map |-> build_field_map(sections, tables),
     tables |-> tables,
     schema_version |-> SCHEMA_VERSION]))

\* the test without the comparison of schema_version
NeedsAnalysis_no_version(metadata) == ~metadata.exists \/ ~metadata.has_tables

NeedsAnalysis(metadata) ==
  ~metadata.exists \/ ~metadata.has_tables \/ metadata.schema_version # SCHEMA_VERSION

\* ensure_metadata returns the stored metadata, or analyses (and saves)
ensure_metadata(stored, doc) == IF NeedsAnalysis(stored) THEN analyze_template(doc) ELSE stored

\* ------------------------------------------------------------ the handlers

NoRequest == <<>>

InitEmpty ==
  /\ template = NoDoc
  /\ metaStore = NoMetadata
  /\ analyses = 0
  /\ request = NoRequest
  /\ output = NoDoc
  /\ applied = <<>>
  /\ response = "none"
  /\ inflight = <<>>

\* POST /upload-template: write the file, analyse it, store the metadata.
\* The file is written before Document(path) reads it: when that raises, the
\* metadata file is left as it was.
upload_template(doc) ==
  /\ template' = doc
  /\ IF doc.readable
     THEN /\ metaStore' = analyze_template(doc)
          /\ analyses' = IF doc = template THEN analyses + 1 ELSE 1
          /\ response' = "ok"
     ELSE /\ metaStore' = metaStore
          /\ analyses' = 0
          /\ response' = "error"
  /\ request' = NoRequest
  /\ output' = NoDoc
  /\ applied' = <<>>
  /\ UNCHANGED inflight

\* the handler with ensure_metadata called before the test of the path
template_fields_ensure_first ==
  /\ response' = IF ~template.exists THEN "not_found" ELSE "ok"
  /\ metaStore' = ensure_metadata(metaStore, template)
  /\ analyses' = IF NeedsAnalysis(metaStore) THEN analyses + 1 ELSE analyses
  /\ request' = NoRequest
  /\ output' = NoDoc
  /\ applied' = <<>>
  /\ UNCHANGED <<template, inflight>>

\* GET /template/{template_id}/fields
template_fields ==
  /\ IF ~template.exists
     THEN response' = "not_found" /\ metaStore' = metaStore
     ELSE IF NeedsAnalysis(metaStore) /\ ~template.readable
     THEN response' = "error" /\ metaStore' = metaStore
     ELSE response' = "ok" /\ metaStore' = ensure_metadata(metaStore, template)
  /\ analyses' = IF template.readable /\ NeedsAnalysis(metaStore) THEN analyses + 1 ELSE analyses
  /\ request' = NoRequest
  /\ output' = NoDoc
  /\ applied' = <<>>
  /\ UNCHANGED <<template, inflight>>

\* POST /generate with the payload data
\* what the handler computes: the metadata it ensures and what
\* replace_placeholders makes of the stored document
generate_outcome(stored, doc, data, proxies_equal) ==
  With(ensure_metadata(stored, doc), LAMBDA metadata :
    [metadata |-> metadata, r |-> replace_placeholders(doc, data, metadata, proxies_equal)])

\* the handler's end: the document is saved and sent, or the request fails
generate_response(outcome) ==
  /\ metaStore' = outcome.metadata
  /\ response' = IF outcome.r.ok THEN "ok" ELSE "error"
  /\ output' = IF outcome.r.ok THEN outcome.r.doc ELSE NoDoc
  /\ applied' = outcome.r.applied

generate(data) ==
  /\ request' = data
  /\ UNCHANGED <<template, inflight>>
  /\ analyses' = IF template.readable /\ NeedsAnalysis(metaStore) THEN analyses + 1 ELSE analyses
  /\ IF ~template.readable
     THEN /\ response' = IF template.exists THEN "error" ELSE "not_found"
          /\ UNCHANGED metaStore
          /\ output' = NoDoc
          /\ applied' = <<>>
     ELSE \E proxies_equal \in BOOLEAN :
            generate_response(generate_outcome(metaStore, template, data, proxies_equal))

\* -------------------------------------------------- the documents tried

MaxSections == 2

HeadingFmt == [bold |-> "on", size |-> 32, other |-> ""]
SmallFmt == [bold |-> "off", size |-> 22, other |-> "italic"]
Heading(text) == Para(PPr("Heading 1", "", "keepNext"), <<Run(text, HeadingFmt)>>)
Plain(text) == Para(NoPPr, <<Run(text, PlainFmt)>>)
Styled(text) == Para(PPr("Normal", "", "jc"), <<Run(text, SmallFmt)>>)
Bullet(text) == Para(PPr("List Bullet", "numId1", "ind"), <<Run(text, PlainFmt)>>)
Blank == Para(NoPPr, <<>>)

\* the paragraphs under a heading: none; one; a list item and a styled one;
\* a text with bold markers, an empty paragraph and a plain one; one between
\* empty paragraphs
Contents ==
  { <<>>,
    <<Plain(<<"x">>)>>,
    <<Bullet(<<"-", " ", "y">>), Styled(<<"z">>)>>,
    <<Plain(<<"*", "*", "b", "*", "*">>), Blank, Plain(<<"x">>)>>,
    <<Blank, Styled(<<"z">>), Blank>> }
SectionParas == {<<Heading(<<"A">>)>> \o c : c \in Contents}
SectionDocs ==
  {Doc(Flatten(f), <<>>, <<>>) : f \in UNION {[1..n -> SectionParas] : n \in 1..MaxSections}}

\* the values tried for a text field besides its own default
ThreeBlocks == <<"p", "\n", "\n", "q", "\n", "\n", "r">>
TwoItems == <<"-", " ", "s", "\n", "-", " ", "t">>
TextChoices == {"skip", "default", "three", "items"}

\* the payload that gives the i-th field of the schema the value chosen for it
PublicFields(metadata) == Flatten([k \in DOMAIN metadata.schema |-> metadata.schema[k].fields])
TextPayload(metadata, choice) ==
  LET fields == PublicFields(metadata)
      items == [i \in DOMAIN fields |->
                  Item(fields[i].name,
                       Scalar(CASE choice[i] = "three" -> ThreeBlocks
                                [] choice[i] = "items" -> TwoItems
                                [] OTHER -> fields[i].default_text))]
  IN SelectSeqIdx(items, LAMBDA i : choice[i] # "skip")

Upload == \E doc \in SectionDocs : template = NoDoc /\ upload_template(doc)
\* one generate request is followed per uploaded template: a second one starts
\* from the same stored template and metadata
Generate ==
  /\ template.exists /\ request = NoRequest /\ output = NoDoc
  /\ \E choice \in [1..Len(PublicFields(metaStore)) -> TextChoices] :
       generate(TextPayload(metaStore, choice))

Init == InitEmpty
Next == Upload \/ Generate
Spec == Init /\ [][Next]_vars

\* ===================================================== generation claims
\* What the claims read off a state in which a generate request has completed.

Generated == request # NoRequest /\ response = "ok" /\ output.exists
Sections == metaStore.auto_sections
InParas == Paragraphs(template.body)
OutParas == Paragraphs(output.body)
SectionFieldName(k) == Sections[k].id \o Chars_content
Supplied(k) == DataHas(request, SectionFieldName(k))
ValueOf(k) == StrOrEmpty(DataGet(request, SectionFieldName(k)).text)
Captured(k) == Len(Sections[k].paragraphs)
\* the blocks the value of section k splits into
BlocksOf(k) == split_paragraph_blocks(ValueOf(k), Captured(k))
StartOfField(name) == DictGet(metaStore.field_map, name).section.content_start
\* by how much the sections supplied before section k move it
ShiftBefore(k) ==
  LET Grow[j \in 0..(k - 1)] ==
        IF j = 0 THEN 0
        ELSE Grow[j - 1] + (IF Supplied(j) THEN Len(BlocksOf(j)) - Captured(j) ELSE 0)
  IN Grow[k - 1]
\* the paragraph texts section k holds when its value alone is applied to the template
AloneTexts(k) ==
  LET alone == Paragraphs(replace_section_content(template.body, Sections[k],
                                                  DataGet(request, SectionFieldName(k)).text,
                                                  TRUE).body)
  IN [b \in 1..Len(BlocksOf(k)) |-> ParaText(alone[Sections[k].content_start + b])]

\* C1: in a document of two or more sections, each with captured paragraphs,
\* where several section fields are supplied and an earlier one has more blocks
\* than its section captured paragraphs, every heading is still there with its
\* text and every supplied value's blocks follow its own heading: no field
\* shifts the paragraphs another field writes to.
C1_Case ==
  /\ Generated
  /\ Len(Sections) >= 2
  /\ \A k \in DOMAIN Sections : Captured(k) >= 1
  /\ \E i, j \in DOMAIN Sections :
       i < j /\ Supplied(i) /\ Supplied(j) /\ Len(BlocksOf(i)) > Captured(i)
C1_FieldsDoNotShiftEachOther ==
  C1_Case =>
    \A k \in DOMAIN Sections :
      LET h == Sections[k].heading_index + ShiftBefore(k)
          s == Sections[k].content_start + ShiftBefore(k)
      IN /\ h < Len(OutParas)
         /\ Strip(ParaText(OutParas[h + 1])) = Sections[k].heading
         /\ Supplied(k) =>
              \A b \in 1..Len(BlocksOf(k)) :
                s + b <= Len(OutParas) /\ ParaText(OutParas[s + b]) = AloneTexts(k)[b]

\* C2: the structured fields are applied in descending order of their start
\* offset: of two applied section fields, the one with the larger
\* content_start is applied first.
C2_DescendingStartOrder ==
  Generated =>
    \A a, b \in DOMAIN applied :
      a < b => StartOfField(applied[a]) > StartOfField(applied[b])

NonBlankTexts(paras) ==
  SelectSeq([i \in DOMAIN paras |-> Strip(ParaText(paras[i]))], LAMBDA t : t # <<>>)

\* C3: applying one field of the schema with its own default to a fresh copy of
\* the analysed document leaves the non-blank paragraph texts of its section as
\* they were, list paragraphs that start with a bullet glyph and texts with
\* ** pairs included.
C3_Case(k) ==
  Generated /\ Len(request) = 1 /\ Supplied(k) /\ ValueOf(k) = Sections[k].default_text
C3_DefaultLeavesTextUnchanged ==
  \A k \in DOMAIN Sections :
    C3_Case(k) =>
      NonBlankTexts(SubSeq(OutParas, Sections[k].content_start + 1,
                           Sections[k].content_end + Len(OutParas) - Len(InParas)))
        = NonBlankTexts(SubSeq(InParas, Sections[k].content_start + 1, Sections[k].content_end))

\* C7. One text value applied to a fresh copy, to a section that captured
\* k >= 1 paragraphs, the value splitting into m >= k blocks.
C7_Case(k) ==
  Generated /\ Len(request) = 1 /\ Supplied(k) /\ Captured(k) >= 1
    /\ Len(BlocksOf(k)) >= Captured(k)
\* the captured entry block i (from 0) is formatted by: min(i, k - 1)
MetaOfBlock(k, i) ==
  Sections[k].paragraphs[IF i < Captured(k) THEN i + 1 ELSE Captured(k)]
CarriesFormat(p, meta) ==
  /\ p.ppr.style = meta.ppr_xml.style
  /\ p.ppr.numpr = meta.ppr_xml.numpr
  /\ p.ppr.blob = meta.ppr_xml.blob
  /\ \A r \in DOMAIN p.runs :
       p.runs[r].fmt \in {meta.run_format, [meta.run_format EXCEPT !.bold = "on"]}
\* the text written for block i: a list item whose entry has list properties
\* loses its leading bullet characters, and the first block is written marker
\* pair by marker pair
WrittenText(k, i) ==
  LET block == BlocksOf(k)[i + 1]
      cleaned == IF MetaOfBlock(k, i).numpr_xml # "" /\ text_looks_like_list_item(block)
                 THEN clean_bullet_text(block) ELSE block
      segs == markdown_segments(cleaned)
  IN IF i = 0 THEN Flatten([g \in DOMAIN segs |-> segs[g].text]) ELSE cleaned
C7_Shape(k, Text(_, _)) ==
  LET m == Len(BlocksOf(k))
      s == Sections[k].content_start
  IN /\ Len(OutParas) = Len(InParas) + m - Captured(k)
     /\ \A i \in 0..(m - 1) :
          /\ ParaText(OutParas[s + i + 1]) = Text(k, i)
          /\ CarriesFormat(OutParas[s + i + 1], MetaOfBlock(k, i))
BlockText(k, i) == BlocksOf(k)[i + 1]

MaxParas == 4

Cell(text) == <<Plain(text)>>
AnalysisElements ==
  { Heading(<<"A">>), Heading(<<"A", " ", "2">>), Heading(<<"?">>),
    Plain(<<"x">>), Blank, Table(<<Row(1, <<Cell(<<"t">>)>>)>>) }
AnalysisDocs ==
  {Doc(f, <<>>, <<>>) : f \in UNION {[1..n -> AnalysisElements] : n \in 1..MaxParas}}

\* the stored document is uploaded again, at most MaxAnalyses analyses in all
MaxAnalyses == 2

UploadAny == \E doc \in AnalysisDocs : template = NoDoc /\ upload_template(doc)
UploadAgain == template.exists /\ analyses < MaxAnalyses /\ upload_template(template)
Fields == template_fields

NextAnalysis == UploadAny \/ UploadAgain \/ Fields
SpecAnalysis == Init /\ [][NextAnalysis]_vars

SchemaNames(metadata) ==
  LET fields == PublicFields(metadata) IN [i \in DOMAIN fields |-> fields[i].name]
SeqToSet(seq) == {seq[i] : i \in DOMAIN seq}

\* C4: after build_schema the keys of field_map are the field names of the
\* public schema, no name occurs twice in the schema, a section field's entry
\* has type section and a table field's entry has type table.
C4_FieldMapMatchesSchema ==
  metaStore.exists =>
    LET fields == PublicFields(metaStore)
        names == SchemaNames(metaStore)
    IN /\ {metaStore.field_map[i].name : i \in DOMAIN metaStore.field_map} = SeqToSet(names)
       /\ \A i, j \in DOMAIN names : i # j => names[i] # names[j]
       /\ \A i \in DOMAIN fields :
            /\ DictHas(metaStore.field_map, fields[i].name)
            /\ fields[i].type = "textarea"
                 => DictGet(metaStore.field_map, fields[i].name).type = "section"
            /\ fields[i].type = "table"
                 => DictGet(metaStore.field_map, fields[i].name).type = "table"
\* a schema with a section field, a table field under a section and a table of no section
C4_Witness ==
  /\ metaStore.exists
  /\ \E i, j \in DOMAIN metaStore.tables :
       metaStore.tables[i].section_id = NoSection /\ metaStore.tables[j].section_id # NoSection
  /\ Len(PublicFields(metaStore)) = Len(metaStore.auto_sections) + Len(metaStore.tables)

C6_SectionIdsDistinct ==
  metaStore.exists =>
    /\ \A i \in DOMAIN Sections : Sections[i].id # <<>>
    /\ \A i, j \in DOMAIN Sections : i # j => Sections[i].id # Sections[j].id
\* the headings A, A, A 2: the slug of the third is the id made for the second
C6_Witness ==
  /\ Len(Sections) = 3
  /\ Sections[1].heading = <<"A">> /\ Sections[2].heading = <<"A">>
  /\ Sections[3].heading = <<"A", " ", "2">>
  /\ Sections[2].id = slugify(Sections[3].heading)
  /\ Sections[3].id = <<"a", "_", "2", "_", "2">>

\* ==================================================== placeholder claims
\* Documents of up to MaxTokens body elements holding {{a}}, {{ b }} and {{c}},
\* with or without a header and a footer, are generated from with scalar
\* payloads for a and b; c is never supplied.

MaxTokens == 2

TokenA == <<"{", "{", "a", "}", "}">>
TokenB == <<"{", "{", " ", "b", " ", "}", "}", "x">>
TokenC == <<"{", "{", "c", "}", "}">>
TokenElements ==
  { Plain(TokenA), Styled(TokenB), Plain(TokenC \o <<" ">> \o TokenA),
    Table(<<Row(1, <<Cell(TokenA), Cell(TokenB)>>)>>) }
PlaceholderDocs ==
  {Doc(f, h, g) : f \in UNION {[1..n -> TokenElements] : n \in 1..MaxTokens},
                  h \in {<<>>, <<Plain(TokenA)>>},
                  g \in {<<>>, <<Styled(TokenB)>>}}

\* the values tried for a: a word, null, a path with a backslash before t, a
\* backslash before d, another token; and for b: a word
Absent == <<"absent">>
ValuesOfA ==
  { <<"v">>, Null, <<"x", "\\", "t", "y">>, <<"\\", "d">>, <<"{", "{", "b", "}", "}">> }
ValuesOfB == { <<"w">> }
ScalarPayloads ==
  { SelectSeq(<<Item(<<"a">>, Scalar(va)), Item(<<"b">>, Scalar(vb))>>,
              LAMBDA it : it.value.text # Absent)
      : va \in ValuesOfA \cup {Absent}, vb \in ValuesOfB \cup {Absent} } \ {<<>>}

UploadTokens == \E doc \in PlaceholderDocs : template = NoDoc /\ upload_template(doc)
GenerateScalars ==
  /\ template.exists /\ request = NoRequest /\ output = NoDoc
  /\ \E data \in ScalarPayloads : generate(data)

NextPlaceholders == UploadTokens \/ GenerateScalars
SpecPlaceholders == Init /\ [][NextPlaceholders]_vars

\* the texts of the paragraphs of a document: body, table cells, header, footer
Texts(doc) == [i \in DOMAIN TextParagraphs(doc) |-> ParaText(TextParagraphs(doc)[i])]

\* a text with every token of a supplied key replaced by the string form of
\* the value and everything else left as it is
RECURSIVE Substituted(_, _)
Substituted(s, data) ==
  IF s = <<>> THEN <<>>
  ELSE LET hits == {i \in DOMAIN data : KeyMatchEnd(s, 1, data[i].key) > 0}
       IN IF hits = {} THEN <<Head(s)>> \o Substituted(Tail(s), data)
          ELSE LET i == CHOOSE h \in hits : TRUE
               IN StrOrEmpty(data[i].value.text)
                    \o Substituted(Drop(s, KeyMatchEnd(s, 1, data[i].key)), data)

ScalarRequest ==
  /\ template.exists /\ request # NoRequest
  /\ \A i \in DOMAIN request : request[i].value.kind = "scalar"

\* C8: after a generation with a payload of scalar values the request has
\* succeeded and every paragraph of the body, the table cells, the header and
\* the footer holds the template's text with each token of a supplied key
\* replaced by the string form of its value, the other tokens intact.
C8_ScalarTokensSubstituted ==
  ScalarRequest =>
    /\ response = "ok" /\ output.exists
    /\ Len(Texts(output)) = Len(Texts(template))
    /\ \A i \in DOMAIN Texts(template) :
         Texts(output)[i] = Substituted(Texts(template)[i], request)

\* ========================================================== table claims
\* A document of one table of up to MaxRows rows and MaxCols columns is
\* generated from with a value for the table's field: a list of up to
\* MaxRows + 1 rows, each a list, a mapping or a scalar, or a bare scalar.

MaxRows == 3
MaxCols == 2

TableDocs ==
  { Doc(<<Plain(<<"x">>),
          Table([r \in 1..n |-> Row(r, [c \in 1..m |-> Cell(<<"t">>)])])>>, <<>>, <<>>)
      : n \in 1..MaxRows, m \in 1..MaxCols }

RowValues ==
  { RowList(<< <<"v">> >>), RowList(<< <<"v">>, Null, <<"w">> >>),
    RowDict(<< <<"v">>, Missing >>), Scalar(<<"v">>) }
TableValues ==
  {List(f) : f \in UNION {[1..n -> RowValues] : n \in 0..(MaxRows + 1)}}
    \cup {Scalar(<<"v">>)}

UploadTable == \E doc \in TableDocs : template = NoDoc /\ upload_template(doc)
GenerateTable ==
  /\ template.exists /\ request = NoRequest /\ output = NoDoc
  /\ \E value \in TableValues : generate(<<Item(PublicFields(metaStore)[1].name, value)>>)

NextTable == UploadTable \/ GenerateTable
SpecTable == Init /\ [][NextTable]_vars

\* a generation that supplied the field of the document's only table
TableRequest ==
  /\ Generated /\ Len(request) = 1
  /\ Len(Tables(template.body)) = 1
  /\ DictHas(metaStore.field_map, request[1].key)
  /\ DictGet(metaStore.field_map, request[1].key).type = "table"
RowsBefore == Tables(template.body)[1].rows
RowsAfter == Tables(output.body)[1].rows
SuppliedRows == IF request[1].value.kind = "list" THEN Len(request[1].value.items) ELSE 1
TargetRows == IF SuppliedRows > 1 THEN SuppliedRows ELSE 1
KeptRows == IF TargetRows < Len(RowsBefore) THEN TargetRows ELSE Len(RowsBefore)

\* C9: after a table field is applied the table has max(1, n) rows for the n
\* rows supplied (a bare scalar is one row); the rows kept are the leading
\* rows of the table before, in their order, and the rest are rows appended.
C9_RowCountAndOrder ==
  TableRequest =>
    /\ Len(RowsAfter) = TargetRows
    /\ \A r \in 1..KeptRows : RowsAfter[r].rid = RowsBefore[r].rid
    /\ \A r \in (KeptRows + 1)..TargetRows : RowsAfter[r].rid = 0
\* a table of three rows given two: the third row goes, the first two stay
C9_Witness ==
  /\ TableRequest /\ Len(RowsBefore) = 3 /\ SuppliedRows = 2
  /\ Len(RowsAfter) = 2 /\ RowsAfter[1].rid = 1 /\ RowsAfter[2].rid = 2

\* ======================================================= checkbox claims
\* build_schema makes no checkbox-group entry: apply_checkbox_field runs when
\* the stored metadata file holds one. The stored document has
\* MaxOptions + 1 paragraphs, each told from the others by its properties;
\* the entry's options, at most MaxOptions, sit at distinct paragraphs, in any
\* order; the payload gives each option no entry, a selected one with a text,
\* an unselected one or a bare string.

MaxOptions == 3

TagNames == <<"p1", "p2", "p3", "p4", "p5", "p6", "p7", "p8">>
OptionNames == <<"a", "b", "c", "d", "e", "f", "g", "h">>
Tagged(i) == Para(PPr("Normal", "", TagNames[i]), <<Run(<<OptionNames[i]>>, SmallFmt)>>)
CheckboxDoc == Doc([i \in 1..(MaxOptions + 1) |-> Tagged(i)], <<>>, <<>>)

Chars_options == <<"o", "p", "t", "i", "o", "n", "s">>
CheckboxFieldMeta(options) ==
  [type |-> "checkbox-group", section |-> EmptySection, table_index |-> 0,
   rows |-> <<>>, options |-> options]
\* the option at the paragraph with index i: the first paragraph's option has a style
OptionAt(i) ==
  Option(i, <<OptionNames[i + 1]>>, <<"d">>, IF i = 0 THEN "List Bullet" ELSE "")
OptionLists ==
  { [k \in DOMAIN f |-> OptionAt(f[k])] :
      f \in {g \in UNION {[1..n -> 0..MaxOptions] : n \in 1..MaxOptions} :
               \A i, j \in DOMAIN g : i # j => g[i] # g[j]} }

EntryChoices == {"none", "selected", "unselected", "bare"}
CheckboxValue(options, choice) ==
  List(SelectSeqIdx([k \in DOMAIN options |->
                       CASE choice[k] = "selected" -> Entry(options[k].value, TRUE, <<"n">>)
                         [] choice[k] = "unselected" -> Entry(options[k].value, FALSE, <<>>)
                         [] OTHER -> Bare(options[k].value)],
                    LAMBDA k : choice[k] # "none"))

\* the stored template and a metadata file for it that holds a checkbox-group
InitCheckbox ==
  /\ template = CheckboxDoc
  /\ \E options \in OptionLists :
       metaStore = [analyze_template(CheckboxDoc) EXCEPT
                      !.field_map = DictSet(@, Chars_options, CheckboxFieldMeta(options))]
  /\ analyses = 1
  /\ request = NoRequest
  /\ output = NoDoc
  /\ applied = <<>>
  /\ response = "ok"
  /\ inflight = <<>>

StoredOptions == DictGet(metaStore.field_map, Chars_options).options
GenerateCheckbox ==
  /\ template.exists /\ request = NoRequest /\ output = NoDoc
  /\ \E choice \in [DOMAIN StoredOptions -> EntryChoices] :
       generate(<<Item(Chars_options, CheckboxValue(StoredOptions, choice))>>)

NextCheckbox == GenerateCheckbox
SpecCheckbox == InitCheckbox /\ [][NextCheckbox]_vars

CheckboxRequest ==
  /\ Generated /\ Len(request) = 1 /\ request[1].key = Chars_options
  /\ DictHas(metaStore.field_map, Chars_options)
\* the option has an entry in the payload that does not select it
Unselected(option) ==
  \E i \in DOMAIN request[1].value.items :
    /\ request[1].value.items[i].kind = "dict"
    /\ request[1].value.items[i].value = option.value
    /\ ~request[1].value.items[i].selected
TagsOf(paras) == [i \in DOMAIN paras |-> paras[i].ppr.blob]
UnselectedTags ==
  { InParas[StoredOptions[k].paragraph_index + 1].ppr.blob :
      k \in {j \in DOMAIN StoredOptions : Unselected(StoredOptions[j])} }

\* C10: with the options at distinct paragraphs, the paragraphs left after
\* apply_checkbox_field are the paragraphs before without those of the
\* unselected options, in the order they had: every unselected option's
\* paragraph is gone, every other paragraph is kept.
C10_ExactlyUnselectedRemoved ==
  CheckboxRequest =>
    TagsOf(OutParas) = SelectSeq(TagsOf(InParas), LAMBDA t : t \notin UnselectedTags)
\* three options listed in ascending order, the first two unselected and the
\* third selected
C10_Witness ==
  /\ CheckboxRequest /\ Len(StoredOptions) = 3
  /\ StoredOptions[1].paragraph_index < StoredOptions[2].paragraph_index
  /\ StoredOptions[2].paragraph_index < StoredOptions[3].paragraph_index
  /\ Unselected(StoredOptions[1]) /\ Unselected(StoredOptions[2])
  /\ ~Unselected(StoredOptions[3])
  /\ Len(OutParas) = Len(InParas) - 2

\* ======================================================= heading claims
\* Documents of up to MaxHeadingParas paragraphs: numbered ones ("1 A",
\* "5.1 L"), one numbered with a dot ("4. S"), and one for each heuristic of
\* looks_like_heading (style, bold, font size, capitals, colon), and a plain one.

MaxHeadingParas == 3

BoldFmt == [bold |-> "on", size |-> 0, other |-> ""]
LargeFmt == [bold |-> "none", size |-> 28, other |-> ""]
NumberedOne == Plain(<<"1", " ", "A">>)
NumberedDotted == Plain(<<"5", ".", "1", " ", "L">>)
NumberedWithDot == Plain(<<"4", ".", " ", "S">>)
HeadingElements ==
  { NumberedOne, NumberedDotted, NumberedWithDot, Heading(<<"A">>),
    Para(NoPPr, <<Run(<<"b">>, BoldFmt)>>), Para(NoPPr, <<Run(<<"c">>, LargeFmt)>>),
    Plain(<<"A", "B">>), Plain(<<"a", ":">>), Plain(<<"x">>) }
HeadingDocs ==
  {Doc(f, <<>>, <<>>) : f \in UNION {[1..n -> HeadingElements] : n \in 1..MaxHeadingParas}}

UploadHeadings == \E doc \in HeadingDocs : template = NoDoc /\ upload_template(doc)
FieldsOfHeadings == template.exists /\ template_fields

NextHeadings == UploadHeadings \/ FieldsOfHeadings
SpecHeadings == Init /\ [][NextHeadings]_vars

\* the indices of the paragraphs whose stripped text matches ^\d+(\.\d+)*\s+
NumberedIndices == {i - 1 : i \in {j \in DOMAIN InParas : TopLevelHeadingMatch(Strip(ParaText(InParas[j])))}}
HeadingIndices == {Sections[k].heading_index : k \in DOMAIN Sections}

\* C11: when some paragraph of the analysed document matches the numbered
\* heading pattern, the section headings are exactly the paragraphs that match
\* it, one section each: none comes from the style, bold, size, capitals or
\* colon heuristics.
C11_NumberedModeExclusive ==
  (metaStore.exists /\ NumberedIndices # {}) =>
    /\ HeadingIndices = NumberedIndices
    /\ Len(Sections) = Cardinality(NumberedIndices)
\* a numbered paragraph between a paragraph of heading style and a bold one
C11_Witness ==
  /\ metaStore.exists /\ Len(InParas) = 3
  /\ InParas[1] = Heading(<<"A">>) /\ InParas[2] = NumberedOne
  /\ InParas[3].runs[1].fmt.bold = "on"
  /\ HeadingIndices = {1}

\* C12: a document with a paragraph whose stripped text is a number, a dot,
\* whitespace and a title ("4. S") is analysed in numbered mode and that
\* paragraph is a section heading.
C12_NumberDotTitleIsHeading ==
  metaStore.exists =>
    \A i \in DOMAIN InParas :
      InParas[i] = NumberedWithDot => (i - 1) \in HeadingIndices

\* ============================================== table association claims
\* The documents of SpecAnalysis: headings, paragraphs, empty paragraphs and
\* tables in any order.

TableInfos == metaStore.tables
\* the index in doc.paragraphs of the nearest paragraph before doc.tables[t], -1 if none
NearestParagraphBefore(t) ==
  LET at == BodyPos(template.body, t, "t")
      before == {i \in 1..(at - 1) : template.body[i].kind = "p"}
  IN IF before = {} THEN -1 ELSE ParagraphIndexAt(template.body, MaxOf(before))
SectionsHolding(p) ==
  {k \in DOMAIN Sections : Sections[k].content_start <= p /\ p < Sections[k].content_end}
SectionsHeadedBy(p) == {k \in DOMAIN Sections : Sections[k].heading_index = p}
\* the tables before table i of the summary that have its section
EarlierOfSection(i) == {j \in 1..(i - 1) : TableInfos[j].section_id = TableInfos[i].section_id}
PublishedName(i) ==
  IF TableInfos[i].section_id # NoSection
  THEN TableInfos[i].section_id \o <<"_">> \o Chars_table
         \o IntStr(Cardinality(EarlierOfSection(i)) + 1)
  ELSE Chars_table \o IntStr(TableInfos[i].table_index + 1)

\* C13: a table of a section is published as {section.id}_table_{n}, n its
\* 1-based position among the tables of that section, and a table of no
\* section as table_{table_index + 1}; the field_map entry of that name is the
\* table's.
C13_TableFieldNames ==
  metaStore.exists =>
    \A i \in DOMAIN TableInfos :
      /\ \E f \in DOMAIN PublicFields(metaStore) :
           /\ PublicFields(metaStore)[f].type = "table"
           /\ PublicFields(metaStore)[f].name = PublishedName(i)
      /\ DictHas(metaStore.field_map, PublishedName(i))
      /\ DictGet(metaStore.field_map, PublishedName(i)).table_index = TableInfos[i].table_index

\* C14: the section of a table is decided by the nearest paragraph before it
\* alone: the section whose content range holds that paragraph, else the
\* section it is the heading of, else none; paragraphs further back are not
\* consulted.
C14_NearestParagraphDecides ==
  metaStore.exists =>
    \A i \in DOMAIN TableInfos :
      LET p == NearestParagraphBefore(TableInfos[i].table_index)
      IN TableInfos[i].section_id =
           IF SectionsHolding(p) # {}
           THEN Sections[CHOOSE k \in SectionsHolding(p) : TRUE].id
           ELSE IF SectionsHeadedBy(p) # {}
           THEN Sections[CHOOSE k \in SectionsHeadedBy(p) : TRUE].id
           ELSE NoSection

\* C20: content ranges are half-open, so a section of empty content holds no
\* paragraph: a table that directly follows the heading of a section has that
\* section, also when the section before it is empty.
C20_TableAfterHeadingHasItsSection ==
  metaStore.exists =>
    \A i \in DOMAIN TableInfos :
      \A k \in SectionsHeadedBy(NearestParagraphBefore(TableInfos[i].table_index)) :
        TableInfos[i].section_id = Sections[k].id

\* ================================================= stored metadata claims
\* The service starts on a template directory and a metadata directory as an
\* earlier run, or an earlier version of the program, left them: no template
\* (with no metadata file, or one left over), or a template of SectionDocs with
\* no metadata file, with the metadata of this version, with metadata without
\* the tables entry, or with metadata of schema version 1. Requests for the
\* fields and generate requests follow.

OldVersion(metadata) ==
  [metadata EXCEPT !.schema_version = SCHEMA_VERSION - 1, !.schema = <<>>, !.field_map = <<>>]
WithoutTables(metadata) == [metadata EXCEPT !.has_tables = FALSE, !.tables = <<>>]
StoredMetadata(doc) ==
  { NoMetadata, analyze_template(doc), WithoutTables(analyze_template(doc)),
    OldVersion(analyze_template(doc)) }

InitStore ==
  /\ \/ /\ template = NoDoc
        /\ metaStore \in {NoMetadata, OldVersion(analyze_template(Doc(<<Plain(<<"x">>)>>, <<>>, <<>>)))}
     \/ \E doc \in SectionDocs : template = doc /\ metaStore \in StoredMetadata(doc)
  /\ analyses = 0
  /\ request = NoRequest
  /\ output = NoDoc
  /\ applied = <<>>
  /\ response = "none"
  /\ inflight = <<>>

StorePayloads ==
  { <<Item(<<"a">>, Scalar(<<"v">>))>>,
    <<Item(<<"a">> \o Chars_content, Scalar(ThreeBlocks))>> }
FieldsStored == template_fields
GenerateStored == \E data \in StorePayloads : generate(data)

NextStore == FieldsStored \/ GenerateStored
SpecStore == InitStore /\ [][NextStore]_vars

\* the stored metadata is absent or empty, lacks the tables entry, or is of
\* another schema version
Stale(metadata) ==
  \/ ~metadata.exists
  \/ ~metadata.has_tables
  \/ metadata.schema_version # SCHEMA_VERSION

\* C15: a request on a stored template analyses the template and overwrites
\* the stored metadata exactly when the stored metadata is stale (absent or
\* empty, without tables, of another schema version); otherwise the stored
\* metadata is used and nothing is analysed or written. The metadata used has
\* schema_version = SCHEMA_VERSION in either case.
C15_EnsureMetadataExactlyWhenStale ==
  [][template.exists =>
       /\ Stale(metaStore) =>
            analyses' = analyses + 1 /\ metaStore' = analyze_template(template)
       /\ ~Stale(metaStore) => analyses' = analyses /\ metaStore' = metaStore
       /\ metaStore'.schema_version = SCHEMA_VERSION]_vars
\* a generate request found stale metadata and the analysis replaced it
C15_Witness ==
  /\ template.exists /\ analyses = 1 /\ request # NoRequest /\ response = "ok"
  /\ metaStore = analyze_template(template) /\ metaStore.field_map # <<>>

\* C17: a request for the fields of, or a generate request for, a template
\* that is not stored is answered not found, analyses nothing and leaves the
\* template directory and the stored metadata as they were.
C17_NotFoundLeavesStore ==
  [][~template.exists =>
       /\ response' = "not_found"
       /\ template' = template /\ metaStore' = metaStore /\ analyses' = analyses
       /\ output' = NoDoc]_vars
\* not found, with a metadata file left over from a template no longer stored
C17_Witness ==
  /\ ~template.exists /\ response = "not_found" /\ metaStore.exists /\ analyses = 0

\* ================================================== section frame claims
\* One section field supplied in a generate request on a fresh copy.
C19_Case(k) == Generated /\ Len(request) = 1 /\ Supplied(k)
\* the paragraphs of the output at and after the one that stood at content_end
ParagraphsAdded == Len(OutParas) - Len(InParas)

\* C19: applying the field of section k changes only the paragraphs of
\* [content_start, content_end), or inserts a paragraph when that range is
\* empty: the paragraphs before content_start keep their texts, and so do the
\* paragraphs from content_end on, the heading of the following section among
\* them, also when content_start = content_end.
C19_OutsideRangeKeepsText ==
  \A k \in DOMAIN Sections :
    C19_Case(k) =>
      /\ \A i \in 1..Sections[k].content_start :
           i <= Len(OutParas) /\ ParaText(OutParas[i]) = ParaText(InParas[i])
      /\ \A i \in (Sections[k].content_end + 1)..Len(InParas) :
           /\ i + ParagraphsAdded \in DOMAIN OutParas
           /\ ParaText(OutParas[i + ParagraphsAdded]) = ParaText(InParas[i])

\* ============================================ order of replacement claims
\* Documents of up to MaxOrderParas body elements, each a paragraph holding
\* {{b}}, a heading, a plain paragraph or a table with {{b}} in its cell, with
\* or without {{b}} in the header, are generated from with a scalar for b and
\* a value for the section field a_content that holds {{b}} itself.

MaxOrderParas == 3

TokenOfB == <<"{", "{", "b", "}", "}">>
OrderElements ==
  { Plain(TokenOfB), Heading(<<"A">>), Plain(<<"x">>), Table(<<Row(1, <<Cell(TokenOfB)>>)>>) }
OrderDocs ==
  {Doc(f, h, <<>>) : f \in UNION {[1..n -> OrderElements] : n \in 1..MaxOrderParas},
                     h \in {<<>>, <<Plain(TokenOfB)>>}}
SectionValues == { TokenOfB, <<"v", "\n", "\n">> \o TokenOfB \o <<" ", "z">>, <<"v">> }
OrderPayloads ==
  { SelectSeq(<<Item(<<"a">> \o Chars_content, Scalar(va)), Item(<<"b">>, Scalar(vb))>>,
              LAMBDA it : it.value.text # Absent)
      : va \in SectionValues \cup {Absent}, vb \in {<<"w">>, Absent} } \ {<<>>}

UploadOrder == \E doc \in OrderDocs : template = NoDoc /\ upload_template(doc)
GenerateOrder ==
  /\ template.exists /\ request = NoRequest /\ output = NoDoc
  /\ \E data \in OrderPayloads : generate(data)

NextOrder == UploadOrder \/ GenerateOrder
SpecOrder == Init /\ [][NextOrder]_vars

HoldsTokenOfB(text) == <<"b">> \in FindPlaceholders(text)
\* the value of section k holds {{b}} and the same payload supplies b
C18_Case(k) ==
  Generated /\ Supplied(k) /\ DataHas(request, <<"b">>) /\ HoldsTokenOfB(ValueOf(k))
CellTexts(doc) ==
  UNION { UNION { UNION { { ParaText(t.rows[r].cells[c][p]) : p \in DOMAIN t.rows[r].cells[c] }
                          : c \in DOMAIN t.rows[r].cells }
                  : r \in DOMAIN t.rows }
          : t \in SeqToSet(Tables(doc.body)) }

\* C18: the scalar substitutions are over before a structured field is
\* applied: when a payload supplies b and gives a section a value that holds
\* {{b}}, the generated document holds {{b}} in exactly the paragraphs written
\* from the blocks of that value that hold it, and in no other body
\* paragraph, table cell or header paragraph.
C18_SubstitutionBeforeFields ==
  \A k \in DOMAIN Sections :
    C18_Case(k) =>
      /\ \A i \in DOMAIN OutParas :
           HoldsTokenOfB(ParaText(OutParas[i]))
             <=> \E j \in DOMAIN BlocksOf(k) :
                   i = Sections[k].content_start + j /\ HoldsTokenOfB(BlocksOf(k)[j])
      /\ \A t \in CellTexts(output) : ~HoldsTokenOfB(t)
      /\ \A h \in DOMAIN output.header : ~HoldsTokenOfB(ParaText(output.header[h]))
\* the template held {{b}} in a body paragraph, a cell and the header, all of
\* them substituted, and the section's paragraph holds the {{b}} of the value
C18_Witness ==
  \E k \in DOMAIN Sections :
    /\ C18_Case(k)
    /\ \E i \in DOMAIN InParas : HoldsTokenOfB(ParaText(InParas[i]))
    /\ \E t \in CellTexts(template) : HoldsTokenOfB(t)
    /\ template.header # <<>>
    /\ \E i \in DOMAIN OutParas : HoldsTokenOfB(ParaText(OutParas[i]))

\* ==================================================== concurrency claims
\* Up to MaxRequests generate requests on one stored template, served step by
\* step: each step of a request is one of its file operations (the test of
\* the path, load_metadata, the analysis, save_metadata, Document(path)) or
\* its replace_placeholders call, and the steps of different requests
\* interleave freely. The event loop runs each handler to its end, which is
\* one of these interleavings.

MaxRequests == 2

\* the document another request holds and has written to, if there is one
load_document_shared(stored, requests) ==
  IF \E j \in DOMAIN requests : requests[j].doc.exists
  THEN requests[CHOOSE j \in DOMAIN requests :
                  /\ requests[j].doc.exists
                  /\ \A h \in DOMAIN requests : requests[h].doc.exists => h <= j].doc
  ELSE stored

\* doc = Document(path): the file is parsed anew, whatever other requests hold
load_document(stored, requests) == stored

Placeholder_a == <<"{", "{", "a", "}", "}">>
ConcurrentDocs ==
  { Doc(<<Plain(Placeholder_a), Heading(<<"A">>), Plain(<<"x">>)>>, <<>>, <<>>),
    Doc(<<Heading(<<"A">>), Plain(Placeholder_a \o <<" ">> \o Placeholder_a)>>,
        <<Plain(Placeholder_a)>>, <<>>) }
ConcurrentPayloads ==
  { <<Item(<<"a">>, Scalar(<<"v">>))>>,
    <<Item(<<"a">>, Scalar(<<"w">>)), Item(<<"a">> \o Chars_content, Scalar(ThreeBlocks))>> }

InitConcurrent ==
  /\ \E doc \in ConcurrentDocs :
       /\ template = doc
       /\ metaStore \in {NoMetadata, analyze_template(doc), OldVersion(analyze_template(doc))}
  /\ analyses = 0
  /\ request = NoRequest
  /\ output = NoDoc
  /\ applied = <<>>
  /\ response = "none"
  /\ inflight = <<>>

Advance(i, next) ==
  /\ inflight' = [inflight EXCEPT ![i] = next]
  /\ UNCHANGED <<template, request, output, applied, response>>

\* a request arrives and its path exists; every request runs the same build
StartGenerate ==
  /\ Len(inflight) < MaxRequests /\ template.exists
  /\ \E data \in ConcurrentPayloads, proxies_equal \in BOOLEAN :
       /\ \A j \in DOMAIN inflight : inflight[j].proxies_equal = proxies_equal
       /\ inflight' = Append(inflight, [pc |-> "load_metadata", data |-> data,
                                        proxies_equal |-> proxies_equal,
                                        metadata |-> NoMetadata, doc |-> NoDoc,
                                        ok |-> FALSE, applied |-> <<>>])
  /\ UNCHANGED <<template, metaStore, analyses, request, output, applied, response>>

\* ensure_metadata: metadata = load_metadata(template_id)
LoadMetadata(i) ==
  /\ inflight[i].pc = "load_metadata"
  /\ Advance(i, [inflight[i] EXCEPT
                   !.metadata = metaStore,
                   !.pc = IF NeedsAnalysis(metaStore) THEN "analyze" ELSE "document"])
  /\ UNCHANGED <<metaStore, analyses>>

\* analyze_template up to save_metadata: the stored document is read and analysed
Analyze(i) ==
  /\ inflight[i].pc = "analyze"
  /\ Advance(i, [inflight[i] EXCEPT
                   !.metadata = analyze_template(load_document(template, inflight)),
                   !.pc = "save_metadata"])
  /\ analyses' = analyses + 1
  /\ UNCHANGED metaStore

\* save_metadata(template_id, metadata)
SaveMetadata(i) ==
  /\ inflight[i].pc = "save_metadata"
  /\ metaStore' = inflight[i].metadata
  /\ Advance(i, [inflight[i] EXCEPT !.pc = "document"])
  /\ UNCHANGED analyses

\* doc = Document(path)
LoadDocument(i) ==
  /\ inflight[i].pc = "document"
  /\ Advance(i, [inflight[i] EXCEPT !.doc = load_document(template, inflight),
                                    !.pc = "replace"])
  /\ UNCHANGED <<metaStore, analyses>>

\* replace_placeholders(doc, payload, metadata) on the request's own document,
\* then doc.save(buffer) and the response
Replaced(r, result) ==
  [r EXCEPT !.doc = result.doc, !.ok = result.ok, !.applied = result.applied, !.pc = "done"]
ReplaceAndRespond(i) ==
  /\ inflight[i].pc = "replace"
  /\ Advance(i, Replaced(inflight[i],
                         replace_placeholders(inflight[i].doc, inflight[i].data,
                                              inflight[i].metadata, inflight[i].proxies_equal)))
  /\ UNCHANGED <<metaStore, analyses>>

Step ==
  \E i \in DOMAIN inflight :
    \/ LoadMetadata(i)
    \/ Analyze(i)
    \/ SaveMetadata(i)
    \/ LoadDocument(i)
    \/ ReplaceAndRespond(i)

NextConcurrent == StartGenerate \/ Step
SpecConcurrent == InitConcurrent /\ [][NextConcurrent]_vars

\* what request i produces when it is the only request, whatever usable or
\* stale metadata is stored for the template
AloneOutcomes(i) ==
  { generate_outcome(stored, template, inflight[i].data, inflight[i].proxies_equal).r :
      stored \in {metaStore} \cup StoredMetadata(template) }
Served(i) == inflight[i].pc = "done"

\* C16: however the steps of the generate requests on one template
\* interleave, each request that has been served produced what it produces
\* when it runs alone (the same document, the same fields applied, the same
\* success or failure), and no step of a generate request changes the stored
\* template.
C16_RequestsDoNotInterfere ==
  /\ [](\A i \in DOMAIN inflight :
          Served(i) =>
            \A alone \in AloneOutcomes(i) :
              /\ inflight[i].ok = alone.ok
              /\ inflight[i].doc = alone.doc
              /\ inflight[i].applied = alone.applied)
  /\ [][template' = template]_vars
\* two requests with different payloads have both been served, each having
\* analysed the template and written to a document of its own
C16_Witness ==
  /\ Len(inflight) = 2 /\ Served(1) /\ Served(2)
  /\ inflight[1].ok /\ inflight[2].ok
  /\ inflight[1].data # inflight[2].data
  /\ inflight[1].doc # inflight[2].doc
  /\ analyses = 2

\* ================================================= text field claims, II
\* One section field supplied to a section that captured paragraphs.
C21_Case(k) == Generated /\ Len(request) = 1 /\ Supplied(k) /\ Captured(k) >= 1

\* C21: when a block of the value does not look like a list item and the
\* captured entry used for it carries list properties, the paragraph written
\* for the block carries no list properties, be it the rewritten first
\* paragraph or an inserted one.
C21_NoListPropertiesOnPlainBlock ==
  \A k \in DOMAIN Sections :
    C21_Case(k) =>
      \A i \in 0..(Len(BlocksOf(k)) - 1) :
        (~text_looks_like_list_item(BlocksOf(k)[i + 1]) /\ MetaOfBlock(k, i).numpr_xml # "")
          => OutParas[Sections[k].content_start + i + 1].ppr.numpr = ""

\* ==================================================== block split claims
\* A section of 1 to MaxCaptured plain paragraphs, followed by another
\* section, is given every value of up to MaxValueLen characters out of p, q
\* and the newline.

MaxCaptured == 3
MaxValueLen == 4

SplitDocs ==
  { Doc(<<Heading(<<"A">>)>> \o [i \in 1..n |-> Plain(<<"x">>)]
          \o <<Heading(<<"B">>), Plain(<<"y">>)>>, <<>>, <<>>) : n \in 1..MaxCaptured }
SplitValues == UNION {[1..n -> {"p", "q", "\n"}] : n \in 1..MaxValueLen}

UploadSplit == \E doc \in SplitDocs : template = NoDoc /\ upload_template(doc)
GenerateSplit ==
  /\ template.exists /\ request = NoRequest /\ output = NoDoc
  /\ \E value \in SplitValues : generate(<<Item(<<"a">> \o Chars_content, Scalar(value))>>)

NextSplit == UploadSplit \/ GenerateSplit
SpecSplit == Init /\ [][NextSplit]_vars

\* the value given to section A, the blocks between its blank lines, its
\* non-blank lines, and the target count: the paragraphs section A captured
SplitCase == Generated /\ Supplied(1)
Normalized == ensure_section_breaks(NormalizeNewlines(ValueOf(1)))
BlankLineBlocks == StripEach(SplitBlankLines(Normalized))
NonBlankLines == SelectSeq(StripEach(SplitLines(Normalized)), LAMBDA ln : ln # <<>>)
Target == Captured(1)
Result == split_paragraph_blocks(ValueOf(1), Target)
EmptyBlocks(n) == [i \in 1..n |-> <<>>]

\* C22: whenever the split on blank lines yields fewer blocks than the target
\* count, the result is one block per non-blank line of the value, padded if
\* still short, also when the non-blank lines are fewer than the target.
C22_FallsBackToLines ==
  (SplitCase /\ Len(BlankLineBlocks) < Target) =>
    Result = NonBlankLines \o EmptyBlocks(Target - Len(NonBlankLines))

MaxRunParas == 2

TwoRuns == Para(NoPPr, <<Run(<<"x">>, PlainFmt), Run(<<"y">>, SmallFmt)>>)
RunParas ==
  { Plain(<<"x">>), TwoRuns, Plain(<<"x", " ">>), Styled(<<"z">>),
    Para(NoPPr, <<Run(<<"b">>, SmallFmt), Run(<<"c">>, PlainFmt), Run(<<"d">>, SmallFmt)>>) }
RunDocs ==
  { Doc(<<Heading(<<"A">>)>> \o f, <<>>, <<>>) :
      f \in UNION {[1..n -> RunParas] : n \in 1..MaxRunParas} }
RunValues(doc) ==
  { analyze_template(doc).auto_sections[1].default_text,
    Strip(ParaText(doc.body[2])), <<"v">>, ThreeBlocks }

UploadRuns == \E doc \in RunDocs : template = NoDoc /\ upload_template(doc)
GenerateRuns ==
  /\ template.exists /\ request = NoRequest /\ output = NoDoc
  /\ \E value \in RunValues(template) :
       generate(<<Item(<<"a">> \o Chars_content, Scalar(value))>>)

NextRuns == UploadRuns \/ GenerateRuns
SpecRuns == Init /\ [][NextRuns]_vars

\* one block is expected (the section captured one paragraph) and the first
\* block of the value is the text of the section's first paragraph
C24_Case ==
  /\ Generated /\ Supplied(1) /\ Captured(1) = 1
  /\ Strip(BlocksOf(1)[1]) # <<>>
  /\ Strip(BlocksOf(1)[1]) = Strip(ParaText(InParas[Sections[1].content_start + 1]))

\* C24: when one block is expected and the first block equals the text of
\* the section's first paragraph, the paragraph is not rewritten: its runs,
\* their number, texts and formats, are after the call what they were before.
C24_UnchangedTextKeepsRuns ==
  C24_Case =>
    OutParas[Sections[1].content_start + 1].runs = InParas[Sections[1].content_start + 1].runs

\* ============================================== heading heuristic claims
\* Documents of one paragraph of 1 to MaxRuns runs, with or without a heading
\* style; each run is a dash, three words or a capital, and is plain, bold or
\* large. No text matches the numbered pattern: the heuristics decide.

MaxRuns == 3

RunTexts == { <<"-", " ">>, <<"a", " ", "b", " ", "c", " ">>, <<"A", " ">> }
RunFormats == { PlainFmt, BoldFmt, LargeFmt }
HeuristicParas ==
  { Para(ppr, runs) :
      ppr \in {NoPPr, PPr("Heading 1", "", "")},
      runs \in UNION {[1..n -> {Run(t, f) : t \in RunTexts, f \in RunFormats}] : n \in 1..MaxRuns} }
HeuristicDocs == {Doc(<<p>>, <<>>, <<>>) : p \in HeuristicParas}

UploadHeuristic == \E doc \in HeuristicDocs : template = NoDoc /\ upload_template(doc)
FieldsOfHeuristic == template.exists /\ template_fields
NextHeuristic == UploadHeuristic \/ FieldsOfHeuristic
SpecHeuristic == Init /\ [][NextHeuristic]_vars

\* the paragraph analysed, its stripped text, whether it was taken for a heading
Analysed == metaStore.exists /\ NumberedIndices = {}
TheParagraph == InParas[1]
TheText == Strip(ParaText(TheParagraph))
IsHeading == 0 \in HeadingIndices
BoldRuns == Cardinality({r \in DOMAIN TheParagraph.runs : TheParagraph.runs[r].fmt.bold = "on"})

\* C25: in heuristic mode a paragraph whose text starts with a bullet glyph
\* is not a heading, whatever its style, bold runs, font size or capitals.
C25_BulletIsNeverHeading ==
  (Analysed /\ TheText # <<>> /\ TheText[1] \in BULLET_PREFIX_CHARS) => ~IsHeading

\* no rule but the bold rule can make the paragraph a heading: no heading
\* style, no bullet glyph first, a first run below 13.5pt, no capital, no
\* colon at the end
OnlyBoldRuleApplies ==
  /\ Analysed /\ TheText # <<>> /\ Len(TheText) <= 120
  /\ TheParagraph.ppr.style \notin HeadingStyles
  /\ TheText[1] \notin BULLET_PREFIX_CHARS
  /\ TheParagraph.runs[1].fmt.size < 27
  /\ \A c \in DOMAIN TheText : TheText[c] \notin Uppers
  /\ TheText[Len(TheText)] # ":"

\* C26: the bold rule makes a paragraph of at most 120 characters a heading
\* only if more than half of its runs are bold, or its first run is bold and
\* the text has at most 8 words; a paragraph of more than 8 words with one
\* bold run out of three, not the first, is not a heading by it.
C26_BoldRuleNeedsMajority ==
  (OnlyBoldRuleApplies /\ IsHeading) =>
    \/ 2 * BoldRuns > Len(TheParagraph.runs)
    \/ TheParagraph.runs[1].fmt.bold = "on" /\ Len(Words(TheText)) <= 8

\* ================================================= section range claims
\* The documents of SpecAnalysis.
NextHeadingIndex(k) ==
  IF k + 1 <= Len(Sections) THEN Sections[k + 1].heading_index ELSE Len(InParas)

\* C27: for every section of an analysed document, heading_index <
\* content_start <= content_end <= the heading index of the next section (the
\* number of paragraphs for the last one); a range that is not empty starts
\* and ends with a paragraph that is not blank; and the section's paragraphs
\* are content_end - content_start entries with the indexes content_start,
\* content_start + 1, ... in order, the blank paragraphs inside the range
\* among them.
C27_SectionRanges ==
  metaStore.exists =>
    \A k \in DOMAIN Sections :
      LET start == Sections[k].content_start
          end == Sections[k].content_end
      IN /\ Sections[k].heading_index < start
         /\ start <= end
         /\ end <= NextHeadingIndex(k)
         /\ start < end => ~IsBlankPara(InParas[start + 1]) /\ ~IsBlankPara(InParas[end])
         /\ Len(Sections[k].paragraphs) = end - start
         /\ \A j \in 1..(end - start) : Sections[k].paragraphs[j].index = start + j - 1
\* a section whose blank paragraphs before and after its one paragraph are
\* left out of the range
C27_Witness ==
  /\ metaStore.exists /\ Len(Sections) = 1
  /\ InParas = <<Heading(<<"A">>), Blank, Plain(<<"x">>), Blank>>
  /\ Sections[1].content_start = 2 /\ Sections[1].content_end = 3
  /\ Len(Sections[1].paragraphs) = 1

\* ===================================================== table cell claims
\* The documents of SpecTable are generated from with a list of up to
\* MaxCellRows rows, each a list of up to MaxCols cells: a word, a text with
\* a ** pair, a text with a __ pair or null; or with such a text alone.

MaxCellRows == 2

StarText == <<"a", " ", "*", "*", "b", "*", "*">>
UnderscoreText == <<"_", "_", "c", "_", "_">>
CellValues == { <<"v">>, StarText, UnderscoreText, Null }
CellRows == {RowList(f) : f \in UNION {[1..m -> CellValues] : m \in 1..MaxCols}}
CellTableValues ==
  {List(f) : f \in UNION {[1..n -> CellRows] : n \in 1..MaxCellRows}} \cup {Scalar(StarText)}

GenerateCells ==
  /\ template.exists /\ request = NoRequest /\ output = NoDoc
  /\ \E value \in CellTableValues : generate(<<Item(PublicFields(metaStore)[1].name, value)>>)

NextCells == UploadTable \/ GenerateCells
SpecCells == Init /\ [][NextCells]_vars

\* the string form of the value supplied for row r and column c, empty when
\* none was supplied or null was
SuppliedCell(r, c) ==
  LET value == request[1].value
  IN IF value.kind = "list"
     THEN IF r <= Len(value.items) /\ c <= Len(value.items[r].items)
          THEN StrOrEmpty(value.items[r].items[c]) ELSE <<>>
     ELSE IF r = 1 /\ c = 1 THEN StrOrEmpty(value.text) ELSE <<>>

\* C28: after a table field is applied every cell of the table holds one
\* paragraph of at most one run whose text is the string form of the value
\* supplied for the cell's row and column, or empty when none or null was
\* supplied, texts with ** or __ pairs included.
C28_CellsHoldSuppliedText ==
  TableRequest =>
    \A r \in DOMAIN RowsAfter : \A c \in DOMAIN RowsAfter[r].cells :
      /\ Len(RowsAfter[r].cells[c]) = 1
      /\ Len(RowsAfter[r].cells[c][1].runs) <= 1
      /\ ParaText(RowsAfter[r].cells[c][1]) = SuppliedCell(r, c)

\* =================================================== checkbox claims, II
\* The stored options of SpecCheckbox, each at a paragraph of its own.
Mentioned(option) ==
  \E i \in DOMAIN request[1].value.items : request[1].value.items[i].value = option.value
OptionTag(option) == InParas[option.paragraph_index + 1].ppr.blob
KeptParagraphs(option) ==
  {i \in DOMAIN OutParas : OutParas[i].ppr.blob = OptionTag(option)}
OnlyBareStrings ==
  \A i \in DOMAIN request[1].value.items : request[1].value.items[i].kind = "str"

\* C29: the paragraph of an option is deleted only when the value holds an
\* entry for the option that does not select it; an option the value does not
\* mention keeps its paragraph, with the option's default text; a value that
\* is a list of bare strings removes no paragraph.
C29_DeletedOnlyWhenUnselected ==
  CheckboxRequest =>
    /\ \A k \in DOMAIN StoredOptions :
         /\ KeptParagraphs(StoredOptions[k]) = {} => Unselected(StoredOptions[k])
         /\ ~Mentioned(StoredOptions[k]) =>
              \E i \in KeptParagraphs(StoredOptions[k]) :
                ParaText(OutParas[i]) = StoredOptions[k].text
    /\ OnlyBareStrings => Len(OutParas) = Len(InParas)
\* two options named by bare strings and a third not mentioned: nothing is
\* removed and the third holds its default text
C29_Witness ==
  /\ CheckboxRequest /\ Len(StoredOptions) = 3
  /\ Len(request[1].value.items) = 2 /\ OnlyBareStrings
  /\ ~Mentioned(StoredOptions[3])
  /\ Len(OutParas) = Len(InParas)
  /\ ParaText(OutParas[StoredOptions[3].paragraph_index + 1]) = StoredOptions[3].text

\* ==================================================== template lifecycle
\* One template id over its life: documents are uploaded under it, one after
\* another, among them bytes that are no docx package, and the fields and
\* generate requests are served in between.

LifecycleDocs == ConcurrentDocs \cup SectionDocs \cup {Unreadable}

UploadLifecycle ==
  \E doc \in LifecycleDocs :
    /\ doc = template => analyses < MaxAnalyses
    /\ upload_template(doc)
FieldsLifecycle == template_fields
GenerateLifecycle == \E data \in StorePayloads : generate(data)

NextLifecycle == UploadLifecycle \/ FieldsLifecycle \/ GenerateLifecycle
SpecLifecycle == Init /\ [][NextLifecycle]_vars

\* a fields or generate request on the stored template was answered from the
\* stored metadata: ensure_metadata returned it and nothing was analysed
ServedFromStore ==
  /\ template.exists /\ ~NeedsAnalysis(metaStore)
  /\ template' = template /\ metaStore' = metaStore /\ analyses' = analyses
  /\ response' = "ok"

\* C30: over any sequence of upload, fields and generate requests on a
\* template id, a document re-uploaded under the id and an upload whose
\* analysis fails after the file was written included, the metadata that
\* ensure_metadata returns without analysing is the analysis of the document
\* stored at that moment.
C30_StoredMetadataMatchesDocument ==
  [][ServedFromStore => template.readable /\ metaStore = analyze_template(template)]_vars

====
